---- MODULE Spec2Model ----
(***************************************************************************)
(* State-machine model of the ST77xx display driver                        *)
(* (components/st77xx/st77xx.c, components/st77xx/include/st77xx.h).       *)
(*                                                                         *)
(* Pointers are heap cell numbers (NULL = 0).  The content of a pixel      *)
(* surface is a three-number tag <<class, p1, p2>> (see the Val...         *)
(* definitions); the bytes of a payload are modelled one by one only in    *)
(* SpecSend, where the transfer channel is exercised on its own, and the   *)
(* pixels of a surface one by one only in SpecDraw, on a small panel.      *)
(* `call` holds the operation last called, its return value, the traffic   *)
(* it put on the SPI bus and the pointers malloc gave it or its arguments; *)
(* `panel_window` is the panel's view of that traffic (the rectangle it    *)
(* was last told to address).                                              *)
(***************************************************************************)
EXTENDS Integers, Sequences, FiniteSets, TLC

VARIABLES
    model,              \* build-time controller selection (st77xx.h:54-64)
    heap,               \* the allocator's cells
    bad_free,           \* a cell was freed while not live
    spi_handle,         \* NULL until spi_init_bus has added the device
    dma_buffer, dma_buffer_size,
    window_set, driver_initialized,
    fb_front, fb_back,
    swap_run,           \* parity of the swaps made since the labels were set
    swap_base,          \* <<front, back>> as init_double_buffers set them
    stripe_buffer, current_stripe,
    preloaded_frames, preloaded_count,
    panel_window,       \* rectangle last addressed on the panel
    call,               \* the last call: [op, ret, bus, env], env being what
                        \* the allocator answered to it, or its arguments
    frame_calls,        \* flush_next calls since the last begin_frame made
                        \* with the stripe buffer allocated (-1: none)
    frame_bands,        \* the rows <<first, last>> those calls addressed
    pre_in,             \* the last preload call: its arguments, what the
                        \* allocator and the files did, the count before it
    payload,            \* SpecSend: the bytes handed to send_data_dma
    wire,               \* SpecSend: the bytes put on the bus, in order
    surf,               \* SpecDraw: the surface drawn on, pixel by pixel:
                        \* [ptr, pix, written], written being the pixel
                        \* positions (from ptr) the last call stored to
    txt,                \* SpecDraw: the last draw_text call: its arguments
                        \* and what each turn of its loop did
    mem_mon             \* SpecMonitor: the memory-monitor task: [pc,
                        \* heap_free], its position and what it last read

vars == <<model, heap, bad_free, spi_handle, dma_buffer, dma_buffer_size, window_set,
          driver_initialized, fb_front, fb_back, swap_run, swap_base, stripe_buffer, current_stripe,
          preloaded_frames, preloaded_count, panel_window, call, frame_calls,
          frame_bands, pre_in, payload, wire, surf, txt, mem_mon>>

(***************************************************************************)
(* Bounds of the model                                                     *)
(***************************************************************************)
MaxPreload == 2         \* largest max_preload tried
HeapSize == MaxPreload + 10  \* cells of the allocator
MaxLen == 12            \* SpecSend: longest payload
MaxCap == 5             \* SpecSend: largest transfer-buffer capacity
SmallWidth == 5         \* SpecDraw: width of the panel
SmallHeight == 4        \* SpecDraw: height of the panel
SmallStripeHeight == 2  \* SpecDraw: rows of a stripe
MaxText == 3            \* SpecDraw: longest text, in bytes

(***************************************************************************)
(* Configuration (st77xx.h)                                                *)
(***************************************************************************)
NULL == 0

Models == {"ST7789", "ST7796S"}

\* SpecDraw follows every pixel, on a panel of SmallWidth x SmallHeight
\* (model "small") in the place of the two panels of the header
ST77XX_WIDTH == IF model = "ST7789" THEN 240 ELSE IF model = "small" THEN SmallWidth ELSE 480
ST77XX_HEIGHT == IF model = "ST7789" THEN 135 ELSE IF model = "small" THEN SmallHeight ELSE 320
ST77XX_X_OFFSET == IF model = "ST7789" THEN 40 ELSE 0
ST77XX_Y_OFFSET == IF model = "ST7789" THEN 52 ELSE 0
ST77XX_USE_INVERSION == IF model = "ST7789" THEN 1 ELSE 0

ST77XX_FB_SIZE == ST77XX_WIDTH * ST77XX_HEIGHT * 2

ST77XX_STRIPE_HEIGHT == IF model = "small" THEN SmallStripeHeight ELSE 27
ST77XX_STRIPE_COUNT == ST77XX_HEIGHT \div ST77XX_STRIPE_HEIGHT
ST77XX_STRIPE_SIZE == ST77XX_WIDTH * ST77XX_STRIPE_HEIGHT * 2

ST77XX_DMA_BUFFER_SIZE == 32 * 1024
ST77XX_SWAP_BYTES_DMA == 1

CMD_SWRESET == 1
CMD_SLPOUT == 17
CMD_NORON == 19
CMD_INVOFF == 32
CMD_INVON == 33
CMD_DISPON == 41
CMD_CASET == 42
CMD_RASET == 43
CMD_RAMWR == 44
CMD_COLMOD == 58
CMD_MADCTL == 54
CMD_PORCTRL == 178
CMD_GCTRL == 183
CMD_VCOMS == 187

ST77XX_PORTRAIT == 0
ST77XX_LANDSCAPE == 1
ST77XX_PORTRAIT_INV == 2
ST77XX_LANDSCAPE_INV == 3
Orientations == {ST77XX_PORTRAIT, ST77XX_LANDSCAPE, ST77XX_PORTRAIT_INV,
                 ST77XX_LANDSCAPE_INV}

(***************************************************************************)
(* Heap (heap_caps_malloc / heap_caps_free)                                *)
(***************************************************************************)
Cells == 1..HeapSize

\* content tags of a cell
ValUninit == <<1, 0, 0>>                 \* fresh from malloc: indeterminate
ValColor(c) == <<0, c, 0>>               \* every pixel = c (memset 0: c = 0)
ValFrame(i) == <<2, i, 0>>               \* the whole of file i.bin
ValFile(off, n) == <<3, off, n>>         \* n file bytes from off, then zeros
ValArray(n) == <<4, n, 0>>               \* index array with room for n
ValMixed == <<6, 0, 0>>                  \* pixels stored by more than one call

FreeCell == [live |-> FALSE, kind |-> "free", val |-> ValUninit, slots |-> <<>>]

\* The allocator serves each kind of buffer from cells of its own, one more
\* than the driver ever holds of that kind at a time.
Region(kind) ==
    CASE kind = "dma" -> 1..2
      [] kind = "fb" -> 3..5
      [] kind = "stripe" -> 6..7
      [] kind = "array" -> 8..9
      [] OTHER -> 10..HeapSize

FreeCells(h, kind) == {c \in Region(kind) : ~h[c].live}

Min(S) == CHOOSE x \in S : \A y \in S : x <= y

\* heap_caps_malloc: a fresh cell, or NULL when the allocator refuses (ok =
\* FALSE) or has nothing left.
MallocPtr(h, ok, kind) ==
    IF ok /\ FreeCells(h, kind) # {} THEN Min(FreeCells(h, kind)) ELSE NULL

MallocHeap(h, ok, kind, val) ==
    LET p == MallocPtr(h, ok, kind)
    IN  IF p = NULL THEN h
        ELSE [h EXCEPT ![p] = [live |-> TRUE, kind |-> kind, val |-> val,
                               slots |-> <<>>]]

\* heap_caps_free on state st = [h, bad]: freeing a cell that is not live is
\* recorded in bad.
FreeSt(st, p) ==
    IF p \in Cells /\ st.h[p].live
    THEN [h |-> [st.h EXCEPT ![p] = FreeCell], bad |-> st.bad]
    ELSE [h |-> st.h, bad |-> TRUE]

(***************************************************************************)
(* Bus traffic                                                             *)
(***************************************************************************)
\* send_cmd: one 8-bit transfer in command mode
send_cmd(cmd) == << <<"cmd", cmd>> >>

\* send_data of a short payload (never longer than the DMA buffer size in
\* this driver): one transfer straight from the caller's memory.
send_data(bytes) == IF Len(bytes) = 0 THEN <<>> ELSE << <<"data">> \o bytes >>

\* send_word: the 16-bit value, high byte first
send_word(data) ==
    LET d == data % 65536 IN send_data(<<d \div 256, d % 256>>)

\* DmaLoop that stops when less than a full buffer is left (the loop test
\* written as size >= cap): the last, partial chunk is never sent.
RECURSIVE DmaLoopWholeOnly(_, _, _, _)
DmaLoopWholeOnly(off, size, cap, acc) ==
    IF size >= cap
    THEN DmaLoopWholeOnly(off + cap, size - cap, cap, Append(acc, <<off, cap>>))
    ELSE acc

\* The chunking loop of send_data_dma: <<offset, length>> of every chunk.
RECURSIVE DmaLoop(_, _, _, _)
DmaLoop(off, size, cap, acc) ==
    IF size > 0
    THEN LET chunk == IF size > cap THEN cap ELSE size
         IN  DmaLoop(off + chunk, size - chunk, cap, Append(acc, <<off, chunk>>))
    ELSE acc

DmaChunks(size, cap) == DmaLoop(0, size, cap, <<>>)

\* send_data_dma without the test of dma_buffer
SendDataDmaUnguarded(src, size, val) ==
    IF size = 0 THEN <<>>
    ELSE LET ch == DmaChunks(size, dma_buffer_size)
         IN  [k \in 1..Len(ch) |-> <<"dma", src, ch[k][1], ch[k][2]>> \o val]

\* send_data_dma(src, size) with the surface at src: one "dma" event per
\* bus transfer, carrying the source, the byte range and the source content.
send_data_dma(src, size, val) ==
    IF size = 0 \/ dma_buffer = NULL THEN <<>>
    ELSE LET ch == DmaChunks(size, dma_buffer_size)
         IN  [k \in 1..Len(ch) |-> <<"dma", src, ch[k][1], ch[k][2]>> \o val]

\* ChunkBytes as the memcpy of the build without byte swap
ChunkBytesCopied(data, off, chunk) == [j \in 1..chunk |-> data[off + j]]

\* The bytes one chunk puts on the bus: the copy loop into dma_buffer with
\* ST77XX_SWAP_BYTES_DMA = 1 (positions are 1-based here: byte j of the
\* chunk is data[off + j]).
ChunkBytes(data, off, chunk) ==
    [j \in 1..chunk |->
        IF j % 2 = 1
        THEN IF j + 1 <= chunk THEN data[off + j + 1] ELSE data[off + j]
        ELSE data[off + j - 1]]

RECURSIVE Concat(_)
Concat(ss) == IF ss = <<>> THEN <<>> ELSE Head(ss) \o Concat(Tail(ss))

\* all bytes send_data_dma(data, Len(data)) puts on the bus, in order
WireBytes(data, cap, present) ==
    IF Len(data) = 0 \/ ~present THEN <<>>
    ELSE LET ch == DmaChunks(Len(data), cap)
         IN  Concat([k \in 1..Len(ch) |-> ChunkBytes(data, ch[k][1], ch[k][2])])

(***************************************************************************)
(* The panel: what rectangle the bus traffic leaves addressed              *)
(***************************************************************************)
NoWindow == <<-1, -1, -1, -1>>      \* after reset: not addressed by the driver

IsWord(e) == Len(e) = 3 /\ e[1] = "data"
WordOf(e) == e[2] * 256 + e[3]

RECURSIVE PanelAfter(_, _, _)
PanelAfter(pw, log, i) ==
    IF i > Len(log) THEN pw
    ELSE LET e == log[i]
             two == i + 2 <= Len(log) /\ IsWord(log[i + 1]) /\ IsWord(log[i + 2])
         IN  IF e[1] = "cmd" /\ e[2] = CMD_SWRESET
             THEN PanelAfter(NoWindow, log, i + 1)
             ELSE IF e[1] = "cmd" /\ e[2] = CMD_CASET /\ two
             THEN PanelAfter(<<WordOf(log[i + 1]), WordOf(log[i + 2]), pw[3], pw[4]>>,
                             log, i + 3)
             ELSE IF e[1] = "cmd" /\ e[2] = CMD_RASET /\ two
             THEN PanelAfter(<<pw[1], pw[2], WordOf(log[i + 1]), WordOf(log[i + 2])>>,
                             log, i + 3)
             ELSE PanelAfter(pw, log, i + 1)

FullPanel == <<ST77XX_X_OFFSET, ST77XX_WIDTH - 1 + ST77XX_X_OFFSET,
               ST77XX_Y_OFFSET, ST77XX_HEIGHT - 1 + ST77XX_Y_OFFSET>>

(***************************************************************************)
(* Window and orientation                                                  *)
(***************************************************************************)
\* st77xx_set_window: the bus traffic for (x0, y0, x1, y1)
SetWindowBus(x0, y0, x1, y1) ==
    LET sx0 == IF x0 > x1 THEN x1 ELSE x0
        sx1 == IF x0 > x1 THEN x0 ELSE x1
        sy0 == IF y0 > y1 THEN y1 ELSE y0
        sy1 == IF y0 > y1 THEN y0 ELSE y1
        cx1 == IF sx1 >= ST77XX_WIDTH THEN ST77XX_WIDTH - 1 ELSE sx1
        cy1 == IF sy1 >= ST77XX_HEIGHT THEN ST77XX_HEIGHT - 1 ELSE sy1
    IN  send_cmd(CMD_CASET)
        \o send_word(sx0 + ST77XX_X_OFFSET) \o send_word(cx1 + ST77XX_X_OFFSET)
        \o send_cmd(CMD_RASET)
        \o send_word(sy0 + ST77XX_Y_OFFSET) \o send_word(cy1 + ST77XX_Y_OFFSET)
        \o send_cmd(CMD_RAMWR)

Madctl(o) ==
    IF model = "ST7789"
    THEN CASE o = ST77XX_PORTRAIT -> 64
           [] o = ST77XX_LANDSCAPE -> 32
           [] o = ST77XX_PORTRAIT_INV -> 128
           [] o = ST77XX_LANDSCAPE_INV -> 224
           [] OTHER -> 64
    ELSE CASE o = ST77XX_PORTRAIT -> 72
           [] o = ST77XX_LANDSCAPE -> 40
           [] o = ST77XX_PORTRAIT_INV -> 136
           [] o = ST77XX_LANDSCAPE_INV -> 232
           [] OTHER -> 72

SetOrientationBus(o) == send_cmd(CMD_MADCTL) \o send_data(<<Madctl(o)>>)

\* every action ends by recording the call and letting the panel see the bus
CalledEnv(op, ret, bus, env) ==
    /\ call' = [op |-> op, ret |-> ret, bus |-> bus, env |-> env]
    /\ panel_window' = PanelAfter(panel_window, bus, 1)

Called(op, ret, bus) == CalledEnv(op, ret, bus, <<>>)

(***************************************************************************)
(* Initial state: the statics of st77xx.c as the loader leaves them        *)
(***************************************************************************)
NoCall == [op |-> "none", ret |-> 0, bus |-> <<>>, env |-> <<>>]
NoSurface == [ptr |-> 0, pix |-> <<>>, written |-> {}]
MonitorOff == [pc |-> "off", heap_free |-> 0]
NoText == [bytes |-> <<>>, beyond |-> <<>>, x |-> 0, y |-> 0, scale |-> 0,
           font |-> 0, turns |-> <<>>, cx |-> 0, cy |-> 0, p |-> 0]
NoPreload == [dir_ok |-> FALSE, max |-> 0, arr_ok |-> FALSE, out |-> <<>>,
              prior |-> 0]

Init ==
    /\ model \in Models
    /\ heap = [c \in Cells |-> FreeCell]
    /\ bad_free = FALSE
    /\ spi_handle = NULL
    /\ dma_buffer = NULL
    /\ dma_buffer_size = 0
    /\ window_set = FALSE
    /\ driver_initialized = FALSE
    /\ fb_front = NULL
    /\ fb_back = NULL
    /\ swap_run = 0
    /\ swap_base = <<NULL, NULL>>
    /\ stripe_buffer = NULL
    /\ current_stripe = 0
    /\ preloaded_frames = NULL
    /\ preloaded_count = 0
    /\ panel_window = NoWindow
    /\ call = NoCall
    /\ frame_calls = -1
    /\ frame_bands = <<>>
    /\ pre_in = NoPreload
    /\ payload = <<>>
    /\ wire = <<>>
    /\ surf = NoSurface
    /\ txt = NoText
    /\ mem_mon = MonitorOff

heapVars == <<heap, bad_free>>
dbVars == <<fb_front, fb_back, swap_run, swap_base>>
stripeVars == <<stripe_buffer, current_stripe, frame_calls, frame_bands>>
preVars == <<preloaded_frames, preloaded_count, pre_in>>
drvVars == <<spi_handle, dma_buffer, dma_buffer_size, driver_initialized>>
\* what lies outside the driver: the caller's payload and the bytes seen
\* on the wire, and the monitor task
sendVars == <<payload, wire, mem_mon>>
drawVars == <<surf, txt>>

\* the content of the surface at p
ValAt(p) == IF p \in Cells THEN heap[p].val ELSE ValUninit

(***************************************************************************)
(* Preloaded set: release                                                  *)
(***************************************************************************)
\* the loop of st77xx_free_preloaded_frames stopping one index early (the
\* test written as i < count - 1)
RECURSIVE FreeFramesButLast(_, _, _, _)
FreeFramesButLast(st, slots, i, count) ==
    IF i < count - 1
    THEN LET p == slots[i + 1]
         IN  FreeFramesButLast(IF p # NULL THEN FreeSt(st, p) ELSE st, slots, i + 1,
                               count)
    ELSE st

\* the loop of st77xx_free_preloaded_frames over indices i..count-1
RECURSIVE FreeFramesFrom(_, _, _, _)
FreeFramesFrom(st, slots, i, count) ==
    IF i < count
    THEN LET p == slots[i + 1]
         IN  FreeFramesFrom(IF p # NULL THEN FreeSt(st, p) ELSE st, slots, i + 1, count)
    ELSE st

\* st77xx_free_preloaded_frames that releases the index array and leaves
\* the frame buffers allocated
FreePreloadedArrayOnly(pst) ==
    IF pst.frames = NULL THEN pst
    ELSE LET st2 == FreeSt([h |-> pst.h, bad |-> pst.bad], pst.frames)
         IN  [h |-> st2.h, bad |-> st2.bad, frames |-> NULL, count |-> 0]

\* st77xx_free_preloaded_frames on pst = [h, bad, frames, count]
FreePreloaded(pst) ==
    IF pst.frames = NULL THEN pst
    ELSE LET st0 == [h |-> pst.h, bad |-> pst.bad]
             st1 == FreeFramesFrom(st0, pst.h[pst.frames].slots, 0, pst.count)
             st2 == FreeSt(st1, pst.frames)
         IN  [h |-> st2.h, bad |-> st2.bad, frames |-> NULL, count |-> 0]

PreState == [h |-> heap, bad |-> bad_free, frames |-> preloaded_frames,
             count |-> preloaded_count]

(***************************************************************************)
(* Double buffers: release                                                 *)
(***************************************************************************)
\* st77xx_cleanup_double_buffers on st = [h, bad]
CleanupDoubleSt(st) ==
    LET s1 == IF fb_front # NULL THEN FreeSt(st, fb_front) ELSE st
    IN  IF fb_back # NULL THEN FreeSt(s1, fb_back) ELSE s1

(***************************************************************************)
(* Driver set-up and tear-down                                             *)
(***************************************************************************)
InitBus ==
    send_cmd(CMD_SWRESET)
    \o send_cmd(CMD_SLPOUT)
    \o send_cmd(CMD_COLMOD) \o send_data(<<85>>)
    \o SetOrientationBus(ST77XX_LANDSCAPE_INV)
    \o send_cmd(CMD_PORCTRL) \o send_data(<<12, 12, 0, 51, 51>>)
    \o send_cmd(CMD_GCTRL) \o send_data(<<IF model = "ST7789" THEN 117 ELSE 53>>)
    \o send_cmd(CMD_VCOMS) \o send_data(<<IF model = "ST7789" THEN 43 ELSE 26>>)
    \o send_cmd(IF ST77XX_USE_INVERSION = 1 THEN CMD_INVON ELSE CMD_INVOFF)
    \o send_cmd(CMD_NORON)
    \o send_cmd(CMD_DISPON)

\* st77xx_init; dma_ok: whether the allocator grants the DMA buffer
st77xx_init(dma_ok) ==
    IF driver_initialized
    THEN /\ Called("init", 0, <<>>)
         /\ UNCHANGED <<model, heapVars, drvVars, window_set, dbVars, stripeVars,
                        preVars, sendVars, drawVars>>
    ELSE /\ spi_handle' = 1
         /\ dma_buffer_size' = ST77XX_DMA_BUFFER_SIZE
         /\ dma_buffer' = MallocPtr(heap, dma_ok, "dma")
         /\ heap' = MallocHeap(heap, dma_ok, "dma", ValUninit)
         /\ window_set' = FALSE
         /\ driver_initialized' = TRUE
         /\ CalledEnv("init", 0, InitBus, <<MallocPtr(heap, dma_ok, "dma")>>)
         /\ UNCHANGED <<model, bad_free, dbVars, stripeVars, preVars, sendVars, drawVars>>

st77xx_cleanup ==
    LET s1 == CleanupDoubleSt([h |-> heap, bad |-> bad_free])
        s2 == FreePreloaded([h |-> s1.h, bad |-> s1.bad,
                             frames |-> preloaded_frames, count |-> preloaded_count])
        s3 == IF dma_buffer # NULL THEN FreeSt([h |-> s2.h, bad |-> s2.bad], dma_buffer)
              ELSE [h |-> s2.h, bad |-> s2.bad]
    IN  /\ fb_front' = NULL
        /\ fb_back' = NULL
        /\ swap_run' = 0
        /\ swap_base' = <<NULL, NULL>>
        /\ preloaded_frames' = s2.frames
        /\ preloaded_count' = s2.count
        /\ dma_buffer' = NULL
        /\ dma_buffer_size' = IF dma_buffer # NULL THEN 0 ELSE dma_buffer_size
        /\ heap' = s3.h
        /\ bad_free' = s3.bad
        /\ window_set' = FALSE
        /\ driver_initialized' = FALSE
        /\ Called("cleanup", 0, <<>>)
        /\ UNCHANGED <<model, spi_handle, stripeVars, pre_in, sendVars, drawVars>>

(***************************************************************************)
(* Screen control                                                          *)
(***************************************************************************)
\* FlushBus that addresses the panel whatever the cache says
FlushBusAlwaysAddresses(fb) ==
    SetWindowBus(0, 0, ST77XX_WIDTH - 1, ST77XX_HEIGHT - 1)
    \o send_data_dma(fb, ST77XX_FB_SIZE, ValAt(fb))

\* bus traffic of st77xx_flush(fb) for a non-null fb
FlushBus(fb) ==
    (IF ~window_set
     THEN SetWindowBus(0, 0, ST77XX_WIDTH - 1, ST77XX_HEIGHT - 1)
     ELSE send_cmd(CMD_RAMWR))
    \o send_data_dma(fb, ST77XX_FB_SIZE, ValAt(fb))

\* st77xx_flush without the test of frame_buffer
FlushWithoutNullTest(fb) ==
    /\ window_set' = TRUE
    /\ CalledEnv("flush", 0, FlushBus(fb), <<fb>>)
    /\ UNCHANGED <<model, heapVars, drvVars, dbVars, stripeVars, preVars,
                   sendVars, drawVars>>

\* the surface handed over is kept in call.env
st77xx_flush(fb) ==
    IF fb = NULL
    THEN /\ CalledEnv("flush", 0, <<>>, <<fb>>)
         /\ UNCHANGED <<model, heapVars, drvVars, window_set, dbVars, stripeVars,
                        preVars, sendVars, drawVars>>
    ELSE /\ window_set' = TRUE
         /\ CalledEnv("flush", 0, FlushBus(fb), <<fb>>)
         /\ UNCHANGED <<model, heapVars, drvVars, dbVars, stripeVars, preVars,
                        sendVars, drawVars>>

\* st77xx_flush_immediate(fb): RAMWR and the frame, the window cache
\* neither read nor written; the surface handed over is kept in call.env
st77xx_flush_immediate(fb) ==
    /\ CalledEnv("flush_immediate", 0,
                 IF fb = NULL THEN <<>>
                 ELSE send_cmd(CMD_RAMWR)
                      \o send_data_dma(fb, ST77XX_FB_SIZE, ValAt(fb)),
                 <<fb>>)
    /\ UNCHANGED <<model, heapVars, drvVars, window_set, dbVars, stripeVars,
                   preVars, sendVars, drawVars>>

\* st77xx_set_orientation that leaves the window cache as it is
SetOrientationKeepsCache(o) ==
    /\ Called("set_orientation", 0, SetOrientationBus(o))
    /\ UNCHANGED <<model, heapVars, drvVars, window_set, dbVars, stripeVars,
                   preVars, sendVars, drawVars>>

st77xx_set_orientation(o) ==
    /\ window_set' = FALSE
    /\ Called("set_orientation", 0, SetOrientationBus(o))
    /\ UNCHANGED <<model, heapVars, drvVars, dbVars, stripeVars, preVars, sendVars, drawVars>>

st77xx_set_window(x0, y0, x1, y1) ==
    /\ Called("set_window", 0, SetWindowBus(x0, y0, x1, y1))
    /\ UNCHANGED <<model, heapVars, drvVars, window_set, dbVars, stripeVars,
                   preVars, sendVars, drawVars>>

(***************************************************************************)
(* Double buffering                                                        *)
(***************************************************************************)
\* st77xx_init_double_buffers without the roll-back: what malloc returned
\* stays in the two handles
InitDoubleNoRollback(ok1, ok2) ==
    IF fb_front # NULL /\ fb_back # NULL
    THEN /\ Called("init_double_buffers", 0, <<>>)
         /\ UNCHANGED <<model, heapVars, drvVars, window_set, dbVars, stripeVars,
                        preVars, sendVars, drawVars>>
    ELSE LET f == MallocPtr(heap, ok1, "fb")
             h1 == MallocHeap(heap, ok1, "fb", ValUninit)
             b == MallocPtr(h1, ok2, "fb")
             h2 == MallocHeap(h1, ok2, "fb", ValUninit)
         IN  /\ fb_front' = f
             /\ fb_back' = b
             /\ heap' = [c \in Cells |->
                            IF c \in {f, b} THEN [h2[c] EXCEPT !.val = ValColor(0)]
                            ELSE h2[c]]
             /\ swap_run' = 0
             /\ swap_base' = <<f, b>>
             /\ CalledEnv("init_double_buffers", 0, <<>>, <<f, b>>)
             /\ UNCHANGED <<model, bad_free, drvVars, window_set, stripeVars,
                            preVars, sendVars, drawVars>>

\* st77xx_init_double_buffers; ok1, ok2: whether the allocator grants the
\* first and the second surface
st77xx_init_double_buffers(ok1, ok2) ==
    IF fb_front # NULL /\ fb_back # NULL
    THEN /\ Called("init_double_buffers", 0, <<>>)
         /\ UNCHANGED <<model, heapVars, drvVars, window_set, dbVars, stripeVars,
                        preVars, sendVars, drawVars>>
    ELSE LET f == MallocPtr(heap, ok1, "fb")
             h1 == MallocHeap(heap, ok1, "fb", ValUninit)
             b == MallocPtr(h1, ok2, "fb")
             h2 == MallocHeap(h1, ok2, "fb", ValUninit)
         IN  IF f = NULL \/ b = NULL
             THEN LET s0 == [h |-> h2, bad |-> bad_free]
                      s1 == IF f # NULL THEN FreeSt(s0, f) ELSE s0
                      s2 == IF b # NULL THEN FreeSt(s1, b) ELSE s1
                  IN  /\ fb_front' = NULL
                      /\ fb_back' = NULL
                      /\ heap' = s2.h
                      /\ bad_free' = s2.bad
                      /\ swap_run' = 0
                      /\ swap_base' = <<NULL, NULL>>
                      /\ CalledEnv("init_double_buffers", 0, <<>>, <<f, b>>)
                      /\ UNCHANGED <<model, drvVars, window_set, stripeVars,
                                     preVars, sendVars, drawVars>>
             ELSE /\ fb_front' = f
                  /\ fb_back' = b
                  /\ heap' = [h2 EXCEPT ![f].val = ValColor(0), ![b].val = ValColor(0)]
                  /\ swap_run' = 0
                  /\ swap_base' = <<f, b>>
                  /\ CalledEnv("init_double_buffers", 0, <<>>, <<f, b>>)
                  /\ UNCHANGED <<model, bad_free, drvVars, window_set, stripeVars,
                                 preVars, sendVars, drawVars>>

st77xx_get_draw_buffer ==
    /\ Called("get_draw_buffer", fb_back, <<>>)
    /\ UNCHANGED <<model, heapVars, drvVars, window_set, dbVars, stripeVars,
                   preVars, sendVars, drawVars>>

\* st77xx_swap_and_display without the temporary: the back label is not
\* moved, both labels end on the same surface.
SwapWithoutTemporary ==
    IF fb_front = NULL \/ fb_back = NULL
    THEN /\ Called("swap_and_display", 0, <<>>)
         /\ UNCHANGED <<model, heapVars, drvVars, window_set, dbVars, stripeVars,
                        preVars, sendVars, drawVars>>
    ELSE /\ fb_front' = fb_back
         /\ fb_back' = fb_back
         /\ swap_run' = 1 - swap_run
         /\ UNCHANGED swap_base
         /\ window_set' = TRUE
         /\ Called("swap_and_display", 0, FlushBus(fb_back))
         /\ UNCHANGED <<model, heapVars, drvVars, stripeVars, preVars, sendVars, drawVars>>

st77xx_swap_and_display ==
    IF fb_front = NULL \/ fb_back = NULL
    THEN /\ Called("swap_and_display", 0, <<>>)
         /\ UNCHANGED <<model, heapVars, drvVars, window_set, dbVars, stripeVars,
                        preVars, sendVars, drawVars>>
    ELSE /\ fb_front' = fb_back
         /\ fb_back' = fb_front
         /\ swap_run' = 1 - swap_run
         /\ UNCHANGED swap_base
         /\ window_set' = TRUE
         /\ Called("swap_and_display", 0, FlushBus(fb_back))
         /\ UNCHANGED <<model, heapVars, drvVars, stripeVars, preVars, sendVars, drawVars>>

st77xx_cleanup_double_buffers ==
    LET s == CleanupDoubleSt([h |-> heap, bad |-> bad_free])
    IN  /\ fb_front' = NULL
        /\ fb_back' = NULL
        /\ swap_run' = 0
        /\ swap_base' = <<NULL, NULL>>
        /\ heap' = s.h
        /\ bad_free' = s.bad
        /\ Called("cleanup_double_buffers", 0, <<>>)
        /\ UNCHANGED <<model, drvVars, window_set, stripeVars, preVars, sendVars, drawVars>>

\* the fill loops that only run the part unrolled by 8
FillWordsUnrolledOnly(words) ==
    {i \in 0..(ST77XX_WIDTH * ST77XX_HEIGHT + ST77XX_WIDTH - 1) :
        i \div 2 < 8 * (words \div 8)}

\* The two loops of st77xx_fill_screen and st77xx_stripe_fill: 8 stores of
\* 32 bits per turn while words >= 8, then one store per turn for the
\* words left.  Each store sets two pixels (color32 holds color twice):
\* the positions stored to, counted in pixels from the start of the buffer.
FillWords(words) ==
    LET unrolled == 8 * (words \div 8)
        rest == words - unrolled
    IN  {i \in 0..(ST77XX_WIDTH * ST77XX_HEIGHT + ST77XX_WIDTH - 1) :
            i \div 2 < unrolled + rest}

\* st77xx_fill_screen(fb, color), fb not NULL: the positions stored to
fill_screen ==
    LET total == ST77XX_WIDTH * ST77XX_HEIGHT
    IN  FillWords(total \div 2) \cup (IF total % 2 = 1 THEN {total - 1} ELSE {})

\* st77xx_stripe_fill(color), stripe_buffer not NULL: the positions stored
\* to (there is no store for an odd last pixel)
stripe_fill == FillWords((ST77XX_WIDTH * ST77XX_STRIPE_HEIGHT) \div 2)

\* the surface followed pixel by pixel, after color was stored to ws
StoredIn(s, ws, color) ==
    [s EXCEPT !.pix = [i \in 1..Len(s.pix) |->
                        IF (i - 1) \in ws THEN color ELSE s.pix[i]],
              !.written = ws]

\* st77xx_fill_screen(fb, color): every pixel of the surface becomes color
\* (width * height is even in both panel configurations); the arguments
\* are kept in call.env
st77xx_fill_screen(fb, color) ==
    /\ heap' = IF fb = NULL THEN heap ELSE [heap EXCEPT ![fb].val = ValColor(color)]
    /\ surf' = IF fb # NULL /\ fb = surf.ptr THEN StoredIn(surf, fill_screen, color)
               ELSE surf
    /\ CalledEnv("fill_screen", 0, <<>>, <<fb, color>>)
    /\ UNCHANGED <<model, bad_free, drvVars, window_set, dbVars, stripeVars,
                   preVars, sendVars, txt>>

(***************************************************************************)
(* Stripe mode                                                             *)
(***************************************************************************)
\* st77xx_init_stripe_mode; ok: whether the allocator grants the buffer
st77xx_init_stripe_mode(ok) ==
    IF stripe_buffer # NULL
    THEN /\ Called("init_stripe_mode", 0, <<>>)
         /\ UNCHANGED <<model, heapVars, drvVars, window_set, dbVars, stripeVars,
                        preVars, sendVars, drawVars>>
    ELSE /\ stripe_buffer' = MallocPtr(heap, ok, "stripe")
         /\ heap' = MallocHeap(heap, ok, "stripe", ValUninit)
         /\ current_stripe' = IF MallocPtr(heap, ok, "stripe") = NULL
                              THEN current_stripe ELSE 0
         /\ CalledEnv("init_stripe_mode", 0, <<>>, <<MallocPtr(heap, ok, "stripe")>>)
         /\ UNCHANGED <<model, bad_free, drvVars, window_set, dbVars, frame_calls,
                        frame_bands, preVars, sendVars, drawVars>>

st77xx_stripe_get_buffer ==
    /\ Called("stripe_get_buffer", stripe_buffer, <<>>)
    /\ UNCHANGED <<model, heapVars, drvVars, window_set, dbVars, stripeVars,
                   preVars, sendVars, drawVars>>

\* st77xx_stripe_fill(color) (width * stripe height is even in both panel
\* configurations, so the 32-bit writes cover the buffer)
st77xx_stripe_fill(color) ==
    /\ heap' = IF stripe_buffer = NULL THEN heap
               ELSE [heap EXCEPT ![stripe_buffer].val = ValColor(color)]
    /\ surf' = IF stripe_buffer # NULL /\ stripe_buffer = surf.ptr
               THEN StoredIn(surf, stripe_fill, color)
               ELSE surf
    /\ CalledEnv("stripe_fill", 0, <<>>, <<stripe_buffer, color>>)
    /\ UNCHANGED <<model, bad_free, drvVars, window_set, dbVars, stripeVars,
                   preVars, sendVars, txt>>

\* st77xx_stripe_fill_rect(x, y, w, h, color) with the stripe buffer
\* allocated: the positions stored to
stripe_fill_rect(x, y, w, h) ==
    IF x >= ST77XX_WIDTH \/ y >= ST77XX_STRIPE_HEIGHT THEN {}
    ELSE LET x1 == IF x < 0 THEN 0 ELSE x
             w1 == IF x < 0 THEN w + x ELSE w
             y1 == IF y < 0 THEN 0 ELSE y
             h1 == IF y < 0 THEN h + y ELSE h
             w2 == IF x1 + w1 > ST77XX_WIDTH THEN ST77XX_WIDTH - x1 ELSE w1
             h2 == IF y1 + h1 > ST77XX_STRIPE_HEIGHT
                   THEN ST77XX_STRIPE_HEIGHT - y1 ELSE h1
         IN  IF w2 <= 0 \/ h2 <= 0 THEN {}
             ELSE {row * ST77XX_WIDTH + x1 + col :
                    row \in y1..(y1 + h2 - 1), col \in 0..(w2 - 1)}

\* the content of the stripe buffer after color was stored to ws
StripeValAfter(ws, color) ==
    IF ws = {} THEN ValAt(stripe_buffer)
    ELSE IF ws = 0..(ST77XX_WIDTH * ST77XX_STRIPE_HEIGHT - 1) THEN ValColor(color)
    ELSE ValMixed

\* the arguments of the call are kept in call.env
st77xx_stripe_fill_rect(x, y, w, h, color) ==
    LET ws == IF stripe_buffer = NULL THEN {} ELSE stripe_fill_rect(x, y, w, h)
    IN  /\ surf' = IF stripe_buffer # NULL /\ stripe_buffer # surf.ptr THEN surf
                   ELSE StoredIn(surf, ws, color)
        /\ heap' = IF stripe_buffer = NULL THEN heap
                   ELSE [heap EXCEPT ![stripe_buffer].val = StripeValAfter(ws, color)]
        /\ CalledEnv("stripe_fill_rect", 0, <<>>,
                     <<stripe_buffer, x, y, w, h, color>>)
        /\ UNCHANGED <<model, bad_free, drvVars, window_set, dbVars, stripeVars,
                       preVars, sendVars, txt>>

st77xx_stripe_begin_frame ==
    /\ current_stripe' = 0
    /\ frame_calls' = IF stripe_buffer # NULL THEN 0 ELSE -1
    /\ frame_bands' = <<>>
    /\ Called("stripe_begin_frame", 0, <<>>)
    /\ UNCHANGED <<model, heapVars, drvVars, window_set, dbVars, stripe_buffer,
                   preVars, sendVars, drawVars>>

\* FlushNextBus with the last row of the band computed without the - 1
FlushNextBusRowTooFar(i) ==
    LET y0 == (i * ST77XX_STRIPE_HEIGHT) % 65536
        y1 == (y0 + ST77XX_STRIPE_HEIGHT) % 65536
    IN  SetWindowBus(0, y0, ST77XX_WIDTH - 1, y1)
        \o send_cmd(CMD_RAMWR)
        \o send_data_dma(stripe_buffer, ST77XX_STRIPE_SIZE, ValAt(stripe_buffer))

\* bus traffic of st77xx_stripe_flush_next for stripe i
FlushNextBus(i) ==
    LET y0 == (i * ST77XX_STRIPE_HEIGHT) % 65536
        y1 == (y0 + ST77XX_STRIPE_HEIGHT - 1) % 65536
    IN  SetWindowBus(0, y0, ST77XX_WIDTH - 1, y1)
        \o send_cmd(CMD_RAMWR)
        \o send_data_dma(stripe_buffer, ST77XX_STRIPE_SIZE, ValAt(stripe_buffer))

\* the observer frame_bands takes the rows the panel was told to address
NextFrameBands(bus) ==
    IF frame_calls < 0 THEN frame_bands
    ELSE LET w == PanelAfter(NoWindow, bus, 1)
         IN  Append(frame_bands, <<w[3], w[4]>>)

\* the observer frame_calls counts the calls, saturating one past the count
NextFrameCalls ==
    IF frame_calls < 0 THEN frame_calls
    ELSE IF frame_calls > ST77XX_STRIPE_COUNT THEN frame_calls
    ELSE frame_calls + 1

\* st77xx_stripe_flush_next that finishes the frame one call late (the test
\* written with > in place of >=).
FlushNextOffByOne ==
    IF stripe_buffer = NULL \/ current_stripe > ST77XX_STRIPE_COUNT
    THEN /\ Called("stripe_flush_next", -1, <<>>)
         /\ frame_calls' = NextFrameCalls
         /\ UNCHANGED <<model, heapVars, drvVars, window_set, dbVars, stripe_buffer,
                        current_stripe, frame_bands, preVars, sendVars, drawVars>>
    ELSE /\ current_stripe' = current_stripe + 1
         /\ frame_calls' = NextFrameCalls
         /\ frame_bands' = NextFrameBands(FlushNextBus(current_stripe))
         /\ Called("stripe_flush_next",
                   IF current_stripe + 1 < ST77XX_STRIPE_COUNT
                   THEN current_stripe + 1 ELSE -1,
                   FlushNextBus(current_stripe))
         /\ UNCHANGED <<model, heapVars, drvVars, window_set, dbVars, stripe_buffer,
                        preVars, sendVars, drawVars>>

st77xx_stripe_flush_next ==
    IF stripe_buffer = NULL \/ current_stripe >= ST77XX_STRIPE_COUNT
    THEN /\ Called("stripe_flush_next", -1, <<>>)
         /\ frame_calls' = NextFrameCalls
         /\ UNCHANGED <<model, heapVars, drvVars, window_set, dbVars, stripe_buffer,
                        current_stripe, frame_bands, preVars, sendVars, drawVars>>
    ELSE /\ current_stripe' = current_stripe + 1
         /\ frame_calls' = NextFrameCalls
         /\ frame_bands' = NextFrameBands(FlushNextBus(current_stripe))
         /\ Called("stripe_flush_next",
                   IF current_stripe + 1 < ST77XX_STRIPE_COUNT
                   THEN current_stripe + 1 ELSE -1,
                   FlushNextBus(current_stripe))
         /\ UNCHANGED <<model, heapVars, drvVars, window_set, dbVars, stripe_buffer,
                        preVars, sendVars, drawVars>>

\* st77xx_cleanup_stripe_mode that frees the buffer and keeps the pointer
CleanupStripeKeepsPointer ==
    LET s == IF stripe_buffer # NULL
             THEN FreeSt([h |-> heap, bad |-> bad_free], stripe_buffer)
             ELSE [h |-> heap, bad |-> bad_free]
    IN  /\ current_stripe' = 0
        /\ frame_calls' = -1
        /\ frame_bands' = <<>>
        /\ heap' = s.h
        /\ bad_free' = s.bad
        /\ Called("cleanup_stripe_mode", 0, <<>>)
        /\ UNCHANGED <<model, drvVars, window_set, dbVars, stripe_buffer, preVars,
                       sendVars, drawVars>>

st77xx_cleanup_stripe_mode ==
    LET s == IF stripe_buffer # NULL
             THEN FreeSt([h |-> heap, bad |-> bad_free], stripe_buffer)
             ELSE [h |-> heap, bad |-> bad_free]
    IN  /\ stripe_buffer' = NULL
        /\ current_stripe' = 0
        /\ frame_calls' = -1
        /\ frame_bands' = <<>>
        /\ heap' = s.h
        /\ bad_free' = s.bad
        /\ Called("cleanup_stripe_mode", 0, <<>>)
        /\ UNCHANGED <<model, drvVars, window_set, dbVars, preVars, sendVars, drawVars>>

\* fread of one stripe, number s (from 0), from a file of fsize bytes read
\* in sequence: the bytes obtained
StripeRead(fsize, s) ==
    LET left == fsize - s * ST77XX_STRIPE_SIZE
    IN  IF left <= 0 THEN 0
        ELSE IF left < ST77XX_STRIPE_SIZE THEN left ELSE ST77XX_STRIPE_SIZE

\* DrawImageLoop that addresses the band of each stripe before sending it
RECURSIVE DrawImageLoopReaddressing(_, _, _)
DrawImageLoopReaddressing(fsize, s, acc) ==
    IF s < ST77XX_STRIPE_COUNT
    THEN DrawImageLoopReaddressing(fsize, s + 1,
            acc \o SetWindowBus(0, s * ST77XX_STRIPE_HEIGHT, ST77XX_WIDTH - 1,
                                (s + 1) * ST77XX_STRIPE_HEIGHT - 1)
                \o send_data_dma(stripe_buffer, ST77XX_STRIPE_SIZE,
                                 ValFile(s * ST77XX_STRIPE_SIZE, StripeRead(fsize, s))))
    ELSE acc

\* the loop of st77xx_stripe_draw_image from stripe s on
RECURSIVE DrawImageLoop(_, _, _)
DrawImageLoop(fsize, s, acc) ==
    IF s < ST77XX_STRIPE_COUNT
    THEN DrawImageLoop(fsize, s + 1,
            acc \o send_data_dma(stripe_buffer, ST77XX_STRIPE_SIZE,
                                 ValFile(s * ST77XX_STRIPE_SIZE, StripeRead(fsize, s))))
    ELSE acc

\* st77xx_stripe_draw_image that counts its stripes in current_stripe and
\* leaves it at 0 as for a new frame
DrawImageRestartsFrame(path_ok, opens, fsize) ==
    IF stripe_buffer = NULL \/ ~path_ok \/ ~opens
    THEN /\ Called("stripe_draw_image", 0, <<>>)
         /\ UNCHANGED <<model, heapVars, drvVars, window_set, dbVars, stripeVars,
                        preVars, sendVars, drawVars>>
    ELSE /\ heap' = IF ST77XX_STRIPE_COUNT > 0
                    THEN [heap EXCEPT ![stripe_buffer].val =
                            ValFile((ST77XX_STRIPE_COUNT - 1) * ST77XX_STRIPE_SIZE,
                                    StripeRead(fsize, ST77XX_STRIPE_COUNT - 1))]
                    ELSE heap
         /\ current_stripe' = 0
         /\ CalledEnv("stripe_draw_image", 1,
                      SetWindowBus(0, 0, ST77XX_WIDTH - 1, ST77XX_HEIGHT - 1)
                      \o send_cmd(CMD_RAMWR)
                      \o DrawImageLoop(fsize, 0, <<>>),
                      <<fsize>>)
         /\ UNCHANGED <<model, bad_free, drvVars, window_set, dbVars, stripe_buffer,
                        frame_calls, frame_bands, preVars, sendVars, drawVars>>

\* st77xx_stripe_draw_image(path); path_ok: path is not NULL, opens: fopen
\* succeeds, fsize: the length of the file
st77xx_stripe_draw_image(path_ok, opens, fsize) ==
    IF stripe_buffer = NULL \/ ~path_ok \/ ~opens
    THEN /\ Called("stripe_draw_image", 0, <<>>)
         /\ UNCHANGED <<model, heapVars, drvVars, window_set, dbVars, stripeVars,
                        preVars, sendVars, drawVars>>
    ELSE /\ heap' = IF ST77XX_STRIPE_COUNT > 0
                    THEN [heap EXCEPT ![stripe_buffer].val =
                            ValFile((ST77XX_STRIPE_COUNT - 1) * ST77XX_STRIPE_SIZE,
                                    StripeRead(fsize, ST77XX_STRIPE_COUNT - 1))]
                    ELSE heap
         /\ CalledEnv("stripe_draw_image", 1,
                      SetWindowBus(0, 0, ST77XX_WIDTH - 1, ST77XX_HEIGHT - 1)
                      \o send_cmd(CMD_RAMWR)
                      \o DrawImageLoop(fsize, 0, <<>>),
                      <<fsize>>)
         /\ UNCHANGED <<model, bad_free, drvVars, window_set, dbVars, stripeVars,
                        preVars, sendVars, drawVars>>

(***************************************************************************)
(* Frame preloader                                                         *)
(***************************************************************************)
\* what happens to file i.bin: it loads, fopen fails, the allocator refuses
\* its buffer, or fread comes back short
Outcomes == {"ok", "noopen", "nomem", "short"}

\* preloaded_frames[idx] = buf
StoreSlot(h, arr, idx, buf) ==
    [h EXCEPT ![arr].slots =
        IF idx + 1 <= Len(h[arr].slots) THEN [h[arr].slots EXCEPT ![idx + 1] = buf]
        ELSE Append(h[arr].slots, buf)]

\* PreloadLoop that takes a short read for a frame: the buffer is stored
\* and counted, and loading goes on
RECURSIVE PreloadLoopKeepsShort(_, _, _, _)
PreloadLoopKeepsShort(pst, i, max_preload, out) ==
    IF i >= max_preload THEN pst
    ELSE IF out[i + 1] = "noopen" THEN pst
    ELSE LET buf == MallocPtr(pst.h, out[i + 1] # "nomem", "frame")
             h1 == MallocHeap(pst.h, out[i + 1] # "nomem", "frame", ValUninit)
         IN  IF buf = NULL THEN pst
             ELSE PreloadLoopKeepsShort(
                    [pst EXCEPT
                        !.h = StoreSlot([h1 EXCEPT ![buf].val =
                                            IF out[i + 1] = "short" THEN ValUninit
                                            ELSE ValFrame(i + 1)],
                                        pst.frames, pst.count, buf),
                        !.count = pst.count + 1],
                    i + 1, max_preload, out)

\* the loading loop of st77xx_preload_frames from i on, on pst = [h, bad,
\* frames, count]
RECURSIVE PreloadLoop(_, _, _, _)
PreloadLoop(pst, i, max_preload, out) ==
    IF i >= max_preload THEN pst
    ELSE IF out[i + 1] = "noopen" THEN pst
    ELSE LET buf == MallocPtr(pst.h, out[i + 1] # "nomem", "frame")
             h1 == MallocHeap(pst.h, out[i + 1] # "nomem", "frame", ValUninit)
         IN  IF buf = NULL THEN pst
             ELSE IF out[i + 1] = "short"
             THEN LET s == FreeSt([h |-> h1, bad |-> pst.bad], buf)
                  IN  [pst EXCEPT !.h = s.h, !.bad = s.bad]
             ELSE PreloadLoop(
                    [pst EXCEPT
                        !.h = StoreSlot([h1 EXCEPT ![buf].val = ValFrame(i + 1)],
                                        pst.frames, pst.count, buf),
                        !.count = pst.count + 1],
                    i + 1, max_preload, out)

\* Preload that keeps the index array when no frame was loaded
PreloadKeepsEmptyArray(pst, dir_ok, max_preload, arr_ok, out) ==
    IF ~dir_ok \/ max_preload <= 0
    THEN [h |-> pst.h, bad |-> pst.bad, frames |-> pst.frames,
          count |-> pst.count, ret |-> 0]
    ELSE LET p0 == FreePreloaded(pst)
             arr == MallocPtr(p0.h, arr_ok, "array")
             h1 == MallocHeap(p0.h, arr_ok, "array", ValArray(max_preload))
         IN  IF arr = NULL
             THEN [h |-> p0.h, bad |-> p0.bad, frames |-> NULL,
                   count |-> p0.count, ret |-> 0]
             ELSE LET p1 == PreloadLoop([p0 EXCEPT !.h = h1, !.frames = arr],
                                        0, max_preload, out)
                  IN  [h |-> p1.h, bad |-> p1.bad, frames |-> p1.frames,
                       count |-> p1.count, ret |-> p1.count]

\* st77xx_preload_frames(base_dir, max_preload) on pst; the result has the
\* return value in ret
Preload(pst, dir_ok, max_preload, arr_ok, out) ==
    IF ~dir_ok \/ max_preload <= 0
    THEN [h |-> pst.h, bad |-> pst.bad, frames |-> pst.frames,
          count |-> pst.count, ret |-> 0]
    ELSE LET p0 == FreePreloaded(pst)
             arr == MallocPtr(p0.h, arr_ok, "array")
             h1 == MallocHeap(p0.h, arr_ok, "array", ValArray(max_preload))
         IN  IF arr = NULL
             THEN [h |-> p0.h, bad |-> p0.bad, frames |-> NULL,
                   count |-> p0.count, ret |-> 0]
             ELSE LET p1 == PreloadLoop([p0 EXCEPT !.h = h1, !.frames = arr],
                                        0, max_preload, out)
                  IN  IF p1.count = 0
                      THEN LET s == FreeSt([h |-> p1.h, bad |-> p1.bad], p1.frames)
                           IN  [h |-> s.h, bad |-> s.bad, frames |-> NULL,
                                count |-> p1.count, ret |-> p1.count]
                      ELSE [h |-> p1.h, bad |-> p1.bad, frames |-> p1.frames,
                            count |-> p1.count, ret |-> p1.count]

st77xx_preload_frames(dir_ok, max_preload, arr_ok, out) ==
    LET r == Preload(PreState, dir_ok, max_preload, arr_ok, out)
    IN  /\ heap' = r.h
        /\ bad_free' = r.bad
        /\ preloaded_frames' = r.frames
        /\ preloaded_count' = r.count
        /\ pre_in' = [dir_ok |-> dir_ok, max |-> max_preload, arr_ok |-> arr_ok,
                      out |-> out, prior |-> preloaded_count]
        /\ Called("preload_frames", r.ret, <<>>)
        /\ UNCHANGED <<model, drvVars, window_set, dbVars, stripeVars, sendVars, drawVars>>

\* st77xx_get_preloaded_frame that takes a negative index for index 0
GetFrameNegativeAsFirst(index) ==
    /\ CalledEnv("get_preloaded_frame",
                 IF preloaded_count = 0 \/ index >= preloaded_count THEN NULL
                 ELSE heap[preloaded_frames].slots[(IF index < 0 THEN 0 ELSE index) + 1],
                 <<>>, <<index>>)
    /\ UNCHANGED <<model, heapVars, drvVars, window_set, dbVars, stripeVars,
                   preVars, sendVars, drawVars>>

\* the index asked for is kept in call.env
st77xx_get_preloaded_frame(index) ==
    /\ CalledEnv("get_preloaded_frame",
                 IF index < 0 \/ index >= preloaded_count THEN NULL
                 ELSE heap[preloaded_frames].slots[index + 1],
                 <<>>, <<index>>)
    /\ UNCHANGED <<model, heapVars, drvVars, window_set, dbVars, stripeVars,
                   preVars, sendVars, drawVars>>

st77xx_get_preloaded_count ==
    /\ Called("get_preloaded_count", preloaded_count, <<>>)
    /\ UNCHANGED <<model, heapVars, drvVars, window_set, dbVars, stripeVars,
                   preVars, sendVars, drawVars>>

st77xx_free_preloaded_frames ==
    LET r == FreePreloaded(PreState)
    IN  /\ heap' = r.h
        /\ bad_free' = r.bad
        /\ preloaded_frames' = r.frames
        /\ preloaded_count' = r.count
        /\ Called("free_preloaded_frames", 0, <<>>)
        /\ UNCHANGED <<model, drvVars, window_set, dbVars, stripeVars, pre_in,
                       sendVars, drawVars>>

(***************************************************************************)
(* The driver as its callers see it                                        *)
(***************************************************************************)
Colors == {4660}

\* arguments tried for st77xx_set_window: the full panel, a small rectangle,
\* the small rectangle with its corners exchanged, and a rectangle that
\* starts to the right of the panel and ends below it
WindowArgs == {<<0, 0, ST77XX_WIDTH - 1, ST77XX_HEIGHT - 1>>, <<0, 0, 7, 5>>,
               <<7, 5, 0, 0>>, <<500, 3, 600, 400>>}

\* the full-frame surfaces a caller can hand to flush and fill_screen
FrameSurfaces == {c \in Cells : heap[c].live /\ heap[c].kind \in {"fb", "frame"}}

\* lengths of the files given to st77xx_stripe_draw_image
FileSizes == {0, ST77XX_STRIPE_SIZE + 100, ST77XX_FB_SIZE}

PreloadCounts == -1..MaxPreload

OutcomeSeqs(n) == [1..n -> Outcomes]

\* The callers put traffic on the bus only once st77xx_init has set the SPI
\* device up (it stays set up after st77xx_cleanup).
BusReady == spi_handle # NULL

(***************************************************************************)
(* Spec: the display path.  A client that sets the driver up, allocates    *)
(* the double buffers and the stripe buffer, and sends frames and stripes  *)
(* to the panel in any order.                                              *)
(***************************************************************************)
Next ==
    \/ \E ok \in BOOLEAN : st77xx_init(ok)
    \/ BusReady /\ \E fb \in FrameSurfaces \cup {NULL} : st77xx_flush(fb)
    \/ BusReady /\ \E o \in Orientations : st77xx_set_orientation(o)
    \/ BusReady /\ \E w \in WindowArgs : st77xx_set_window(w[1], w[2], w[3], w[4])
    \/ \E ok1, ok2 \in BOOLEAN : st77xx_init_double_buffers(ok1, ok2)
    \/ BusReady /\ st77xx_swap_and_display
    \/ \E ok \in BOOLEAN : st77xx_init_stripe_mode(ok)
    \/ st77xx_stripe_begin_frame
    \/ BusReady /\ st77xx_stripe_flush_next
    \/ BusReady /\ \E opens \in BOOLEAN : st77xx_stripe_draw_image(TRUE, opens, ST77XX_FB_SIZE)

Spec == Init /\ [][Next]_vars

(***************************************************************************)
(* SpecStripe: the stripe renderer on its own, with the driver set up and  *)
(* torn down around it.                                                    *)
(***************************************************************************)
NextStripe ==
    \/ \E ok \in BOOLEAN : st77xx_init(ok)
    \/ st77xx_cleanup
    \/ \E ok \in BOOLEAN : st77xx_init_stripe_mode(ok)
    \/ st77xx_stripe_get_buffer
    \/ \E c \in Colors : st77xx_stripe_fill(c)
    \/ \E c \in Colors : st77xx_stripe_fill_rect(1, 1, 2, 2, c)
    \/ st77xx_stripe_begin_frame
    \/ BusReady /\ st77xx_stripe_flush_next
    \/ st77xx_cleanup_stripe_mode
    \/ BusReady /\ \E path_ok, opens \in BOOLEAN, fsize \in FileSizes :
            st77xx_stripe_draw_image(path_ok, opens, fsize)

SpecStripe == Init /\ [][NextStripe]_vars

(***************************************************************************)
(* SpecDouble: the full-frame renderer.                                    *)
(***************************************************************************)
NextDouble ==
    \/ \E ok \in BOOLEAN : st77xx_init(ok)
    \/ st77xx_cleanup
    \/ \E ok1, ok2 \in BOOLEAN : st77xx_init_double_buffers(ok1, ok2)
    \/ st77xx_get_draw_buffer
    \/ BusReady /\ st77xx_swap_and_display
    \/ st77xx_cleanup_double_buffers
    \/ \E c \in Colors : st77xx_fill_screen(fb_back, c)
    \/ BusReady /\ \E o \in Orientations : st77xx_set_orientation(o)

SpecDouble == Init /\ [][NextDouble]_vars

(***************************************************************************)
(* SpecPreload: the frame preloader.                                       *)
(***************************************************************************)
NextPreload ==
    \/ \E dir_ok, arr_ok \in BOOLEAN, n \in PreloadCounts :
        \E out \in OutcomeSeqs(IF n > 0 THEN n ELSE 0) :
            st77xx_preload_frames(dir_ok, n, arr_ok, out)
    \/ \E i \in -1..MaxPreload : st77xx_get_preloaded_frame(i)
    \/ st77xx_get_preloaded_count
    \/ st77xx_free_preloaded_frames
    \/ st77xx_cleanup

SpecPreload == Init /\ [][NextPreload]_vars

(***************************************************************************)
(* SpecAlloc: the three calls that allocate surfaces, with an allocator    *)
(* that may refuse any request, and the calls that release them.           *)
(***************************************************************************)
AllocOutcomes == {"ok", "nomem"}

NextAlloc ==
    \/ \E ok1, ok2 \in BOOLEAN : st77xx_init_double_buffers(ok1, ok2)
    \/ st77xx_cleanup_double_buffers
    \/ \E ok \in BOOLEAN : st77xx_init_stripe_mode(ok)
    \/ st77xx_cleanup_stripe_mode
    \/ \E arr_ok \in BOOLEAN, n \in 1..MaxPreload :
        \E out \in [1..n -> AllocOutcomes] :
            st77xx_preload_frames(TRUE, n, arr_ok, out)
    \/ st77xx_free_preloaded_frames

SpecAlloc == Init /\ [][NextAlloc]_vars

(***************************************************************************)
(* SpecSend: the transfer channel on its own.  The payload and the         *)
(* capacity of the transfer buffer are drawn at the start; byte i of the   *)
(* payload has the value i, so that the bytes on the bus tell where they   *)
(* came from.                                                              *)
(***************************************************************************)
CallerMemory == -1                         \* a source outside the heap
ValPayload(n) == <<5, n, 0>>               \* n bytes of the caller

Payloads == {[i \in 1..n |-> i] : n \in 0..MaxLen}

InitSend ==
    /\ model = "ST7796S"
    /\ payload \in Payloads
    /\ dma_buffer_size \in 1..MaxCap
    /\ dma_buffer \in {NULL, 1}
    /\ heap = [c \in Cells |->
                IF c = dma_buffer
                THEN [live |-> TRUE, kind |-> "dma", val |-> ValUninit, slots |-> <<>>]
                ELSE FreeCell]
    /\ bad_free = FALSE
    /\ spi_handle = 1
    /\ window_set = FALSE
    /\ driver_initialized = TRUE
    /\ fb_front = NULL
    /\ fb_back = NULL
    /\ swap_run = 0
    /\ swap_base = <<NULL, NULL>>
    /\ stripe_buffer = NULL
    /\ current_stripe = 0
    /\ preloaded_frames = NULL
    /\ preloaded_count = 0
    /\ panel_window = NoWindow
    /\ call = NoCall
    /\ frame_calls = -1
    /\ frame_bands = <<>>
    /\ pre_in = NoPreload
    /\ wire = <<>>
    /\ surf = NoSurface
    /\ txt = NoText
    /\ mem_mon = MonitorOff

\* one call send_data_dma(payload, Len(payload))
SendPayload ==
    /\ wire' = WireBytes(payload, dma_buffer_size, dma_buffer # NULL)
    /\ Called("send_data_dma", 0,
              send_data_dma(CallerMemory, Len(payload), ValPayload(Len(payload))))
    /\ UNCHANGED <<model, heapVars, drvVars, window_set, dbVars, stripeVars,
                   preVars, payload, mem_mon, drawVars>>

NextSend == SendPayload

SpecSend == InitSend /\ [][NextSend]_vars

(***************************************************************************)
(* Drawing on a pixel surface.  A surface is followed pixel by pixel:      *)
(* pixel i (from 0) of the buffer is surf.pix[i + 1].  A store is named by *)
(* its position from the start of the buffer, so a store past the end of   *)
(* the buffer is seen as a position the buffer does not have.              *)
(***************************************************************************)
\* the positions followed: a full frame, and one row after it
MemoryTop == ST77XX_WIDTH * ST77XX_HEIGHT + ST77XX_WIDTH - 1
Memory == 0..MemoryTop

\* st77xx_draw_pixel(fb, x, y, color), fb not NULL: the positions stored to
draw_pixel(x, y) ==
    IF x < 0 \/ x >= ST77XX_WIDTH \/ y < 0 \/ y >= ST77XX_HEIGHT THEN {}
    ELSE {y * ST77XX_WIDTH + x}

\* the 32-bit stores of the full-width path of st77xx_fill_rect for a
\* product w * h = n: pixels / 2, where pixels = (size_t)w * h is n taken
\* modulo 2^32 (size_t has 32 bits on the ESP32): 2^31 + floor(n / 2) when n
\* is negative
BulkWords(n) == IF n >= 0 THEN n \div 2 ELSE (2147483647 + (n \div 2)) + 1

\* the positions the full-width path stores to, from position start on:
\* two pixels per 32-bit store, then start[pixels - 1] when pixels is odd
BulkFill(start, n) ==
    {i \in Memory : i >= start /\ (i - start) \div 2 < BulkWords(n)}
    \cup (IF n > 0 /\ n % 2 = 1 THEN {start + n - 1} ELSE {})

\* fill_rect that does not clip the rectangle on the right
fill_rect_unclipped_right(x, y, w, h) ==
    IF x >= ST77XX_WIDTH \/ y >= ST77XX_HEIGHT \/ x + w <= 0 \/ y + h <= 0 THEN {}
    ELSE LET x1 == IF x < 0 THEN 0 ELSE x
             w1 == IF x < 0 THEN w + x ELSE w
             y1 == IF y < 0 THEN 0 ELSE y
             h1 == IF y < 0 THEN h + y ELSE h
             h2 == IF y1 + h1 > ST77XX_HEIGHT THEN ST77XX_HEIGHT - y1 ELSE h1
         IN  {(y1 + row) * ST77XX_WIDTH + x1 + col :
                    row \in 0..(h2 - 1), col \in 0..(w1 - 1)}

\* st77xx_fill_rect(fb, x, y, w, h, color), fb not NULL: the positions
\* stored to
fill_rect(x, y, w, h) ==
    IF x >= ST77XX_WIDTH \/ y >= ST77XX_HEIGHT \/ x + w <= 0 \/ y + h <= 0 THEN {}
    ELSE LET x1 == IF x < 0 THEN 0 ELSE x
             w1 == IF x < 0 THEN w + x ELSE w
             y1 == IF y < 0 THEN 0 ELSE y
             h1 == IF y < 0 THEN h + y ELSE h
             w2 == IF x1 + w1 > ST77XX_WIDTH THEN ST77XX_WIDTH - x1 ELSE w1
             h2 == IF y1 + h1 > ST77XX_HEIGHT THEN ST77XX_HEIGHT - y1 ELSE h1
         IN  IF x1 = 0 /\ w2 = ST77XX_WIDTH
             THEN BulkFill(y1 * ST77XX_WIDTH, w2 * h2)
             ELSE {(y1 + row) * ST77XX_WIDTH + x1 + col :
                    row \in 0..(h2 - 1), col \in 0..(w2 - 1)}

\* the surface after color was stored to the positions ws: the pixels the
\* buffer has take the color, and every position stored to is remembered
Stored(ws, color) == StoredIn(surf, ws, color)

drawRest == <<model, heapVars, drvVars, window_set, dbVars, stripeVars, preVars,
              sendVars>>

\* the arguments of the call are kept in call.env
st77xx_draw_pixel(fb, x, y, color) ==
    /\ surf' = Stored(IF fb = NULL THEN {} ELSE draw_pixel(x, y), color)
    /\ CalledEnv("draw_pixel", 0, <<>>, <<fb, x, y, color>>)
    /\ UNCHANGED <<drawRest, txt>>

st77xx_fill_rect(fb, x, y, w, h, color) ==
    /\ surf' = Stored(IF fb = NULL THEN {} ELSE fill_rect(x, y, w, h), color)
    /\ CalledEnv("fill_rect", 0, <<>>, <<fb, x, y, w, h, color>>)
    /\ UNCHANGED <<drawRest, txt>>

(***************************************************************************)
(* Text                                                                    *)
(***************************************************************************)
ST77XX_FONT_WIDTH == 8
ST77XX_FONT_HEIGHT == 12
ST77XX_FONT_CHARS == 108

font_char_map ==
    [i \in 1..96 |-> 31 + i]
    \o <<161, 191, 209, 225, 233, 237, 241, 243, 250, 252, 26376, 20320>>

font_char_map_count == Len(font_char_map)

\* find_char_index that counts the positions of the map from 1
find_char_index_from_one(code) ==
    IF \E i \in 1..font_char_map_count : font_char_map[i] = code
    THEN CHOOSE i \in 1..font_char_map_count :
            /\ font_char_map[i] = code
            /\ \A j \in 1..(i - 1) : font_char_map[j] # code
    ELSE -1

\* find_char_index: the first position (from 0) of code in the map, or -1
find_char_index(code) ==
    IF \E i \in 1..font_char_map_count : font_char_map[i] = code
    THEN (CHOOSE i \in 1..font_char_map_count :
            /\ font_char_map[i] = code
            /\ \A j \in 1..(i - 1) : font_char_map[j] # code) - 1
    ELSE -1

\* The memory a text pointer leads to: the bytes of the text, its NUL, and
\* what lies after it, which is not the text's (beyond, then zeros so that
\* every reading ends).  s[k] of the code is mem[k + 1].
TextMemory(bytes, beyond) == bytes \o <<0>> \o beyond \o <<0, 0, 0, 0>>

\* utf8_next_codepoint(&p) on mem: the code point returned and the new p
utf8_next_codepoint(mem, p) ==
    LET s0 == mem[p + 1]
        s1 == mem[p + 2]
        s2 == mem[p + 3]
        s3 == mem[p + 4]
    IN  IF s0 = 0 THEN [cp |-> 0, p |-> p, last |-> p]
        ELSE IF s0 < 128 THEN [cp |-> s0, p |-> p + 1, last |-> p]
        ELSE IF s0 \div 32 = 6          \* (s[0] & 0xE0) == 0xC0
        THEN [cp |-> (s0 % 32) * 64 + (s1 % 64), p |-> p + 2, last |-> p + 1]
        ELSE IF s0 \div 16 = 14         \* (s[0] & 0xF0) == 0xE0
        THEN [cp |-> (s0 % 16) * 4096 + (s1 % 64) * 64 + (s2 % 64),
              p |-> p + 3, last |-> p + 2]
        ELSE IF s0 \div 8 = 30          \* (s[0] & 0xF8) == 0xF0
        THEN [cp |-> (s0 % 8) * 262144 + (s1 % 64) * 4096 + (s2 % 64) * 64
                        + (s3 % 64),
              p |-> p + 4, last |-> p + 3]
        ELSE [cp |-> 0, p |-> p + 1, last |-> p]

\* the font table handed to draw_text: of every three bytes the first has
\* every bit set, the second the two outer bits, the third none
Fonts == {1}
FontByte(font, k) == IF k % 3 = 0 THEN 255 ELSE IF k % 3 = 1 THEN 129 ELSE 0

Pow2(n) == IF n = 0 THEN 1 ELSE IF n = 1 THEN 2 ELSE IF n = 2 THEN 4
           ELSE IF n = 3 THEN 8 ELSE IF n = 4 THEN 16 ELSE IF n = 5 THEN 32
           ELSE IF n = 6 THEN 64 ELSE 128

\* draw_glyph(fb, x, y, index, color, scale, font): the positions stored to
draw_glyph(x, y, index, scale, font) ==
    IF index < 0 \/ index >= ST77XX_FONT_CHARS \/ font = NULL THEN {}
    ELSE UNION {
            IF (FontByte(font, index * ST77XX_FONT_HEIGHT + row)
                    \div Pow2(ST77XX_FONT_WIDTH - 1 - col)) % 2 = 1
            THEN IF scale = 1 THEN draw_pixel(x + col, y + row)
                 ELSE fill_rect(x + col * scale, y + row * scale, scale, scale)
            ELSE {} :
            row \in 0..(ST77XX_FONT_HEIGHT - 1), col \in 0..(ST77XX_FONT_WIDTH - 1)}

\* TurnAt that leaves the cursor where it is for a code point that has no
\* glyph
TurnAtSkipsUnknown(mem, p, cx, cy, x, scale) ==
    LET d == utf8_next_codepoint(mem, p)
        idx == find_char_index(d.cp)
    IN  IF d.cp = 0 THEN <<p, 0, d.p, -1, cx, cy, cx, cy, 0, d.last>>
        ELSE IF d.cp = 10
        THEN <<p, 10, d.p, -1, cx, cy, x, cy + (ST77XX_FONT_HEIGHT + 2) * scale, 0,
               d.last>>
        ELSE IF idx < 0 THEN <<p, d.cp, d.p, idx, cx, cy, cx, cy, 0, d.last>>
        ELSE <<p, d.cp, d.p, idx, cx, cy, cx + ST77XX_FONT_WIDTH * scale, cy, 1,
               d.last>>

\* One turn of the loop of st77xx_draw_text_unicode is kept as
\* <<p before, code point, p after, glyph index, cx before, cy before,
\*   cx after, cy after, 1 if draw_glyph was called, last position read>>
TurnAt(mem, p, cx, cy, x, scale) ==
    LET d == utf8_next_codepoint(mem, p)
        idx == find_char_index(d.cp)
    IN  IF d.cp = 0 THEN <<p, 0, d.p, -1, cx, cy, cx, cy, 0, d.last>>
        ELSE IF d.cp = 10
        THEN <<p, 10, d.p, -1, cx, cy, x, cy + (ST77XX_FONT_HEIGHT + 2) * scale, 0,
               d.last>>
        ELSE <<p, d.cp, d.p, idx, cx, cy, cx + ST77XX_FONT_WIDTH * scale, cy,
               IF idx >= 0 THEN 1 ELSE 0, d.last>>

\* the loop from position p on: the turns it takes (the turn that decodes 0
\* is the last: cp == 0 breaks)
RECURSIVE TextLoop(_, _, _, _, _, _, _)
TextLoop(mem, p, cx, cy, x, scale, acc) ==
    IF mem[p + 1] = 0 THEN acc
    ELSE LET t == TurnAt(mem, p, cx, cy, x, scale)
         IN  IF t[2] = 0 THEN Append(acc, t)
             ELSE TextLoop(mem, t[3], t[7], t[8], x, scale, Append(acc, t))

\* the positions the glyphs of the turns store to
TextStores(turns, scale, font) ==
    UNION {IF turns[k][9] = 1
           THEN draw_glyph(turns[k][5], turns[k][6], turns[k][4], scale, font)
           ELSE {} : k \in 1..Len(turns)}

\* the highest position of the memory the loop read (its own test of *p
\* included)
TopRead(turns) ==
    IF turns = <<>> THEN 0
    ELSE LET t == turns[Len(turns)]
         IN  IF t[2] = 0 \/ t[3] <= t[10] THEN t[10] ELSE t[3]

\* st77xx_draw_text_unicode(fb, text, x, y, color, scale, font); text_ok:
\* text is not NULL and leads to bytes, NUL, beyond.  What lies beyond the
\* NUL is kept only if the call read it.  call.env keeps fb, color and
\* whether text was given (1) or NULL (0).
st77xx_draw_text_unicode(fb, text_ok, bytes, beyond, x, y, color, scale, font) ==
    IF fb = NULL \/ ~text_ok \/ font = NULL
    THEN /\ surf' = Stored({}, color)
         /\ txt' = [NoText EXCEPT !.x = x, !.y = y, !.scale = scale, !.font = font,
                                  !.cx = x, !.cy = y]
         /\ CalledEnv("draw_text", 0, <<>>, <<fb, color, IF text_ok THEN 1 ELSE 0>>)
         /\ UNCHANGED drawRest
    ELSE LET mem == TextMemory(bytes, beyond)
             turns == TextLoop(mem, 0, x, y, x, scale, <<>>)
             last == IF turns = <<>> THEN <<0, 0, 0, -1, x, y, x, y, 0, 0>>
                     ELSE turns[Len(turns)]
         IN  /\ surf' = Stored(TextStores(turns, scale, font), color)
             /\ txt' = [bytes |-> bytes,
                        beyond |-> IF TopRead(turns) > Len(bytes) THEN beyond
                                   ELSE <<>>,
                        x |-> x, y |-> y, scale |-> scale, font |-> font,
                        turns |-> turns, cx |-> last[7], cy |-> last[8],
                        p |-> last[3]]
             /\ CalledEnv("draw_text", 0, <<>>, <<fb, color, 1>>)
             /\ UNCHANGED drawRest

(***************************************************************************)
(* Color conversion                                                        *)
(***************************************************************************)
\* v >> n and v << n on non-negative values
RECURSIVE ShiftRight(_, _)
ShiftRight(v, n) == IF n = 0 THEN v ELSE ShiftRight(v \div 2, n - 1)

RECURSIVE ShiftLeft(_, _)
ShiftLeft(v, n) == IF n = 0 THEN v ELSE ShiftLeft(2 * v, n - 1)

\* a | b on non-negative values, bit by bit
RECURSIVE BitOr(_, _)
BitOr(a, b) ==
    IF a = 0 /\ b = 0 THEN 0
    ELSE (IF a % 2 = 1 \/ b % 2 = 1 THEN 1 ELSE 0) + 2 * BitOr(a \div 2, b \div 2)

\* the conversion with the green component cut to five bits
rgb888_to_rgb565_green5(r, g, b) ==
    BitOr(BitOr(ShiftLeft(ShiftRight(r, 3), 11), ShiftLeft(ShiftRight(g, 3), 5)),
          ShiftRight(b, 3)) % 65536

\* the value st77xx_rgb888_to_rgb565 returns: the expression is computed in
\* int and returned as uint16_t
rgb888_to_rgb565(r, g, b) ==
    BitOr(BitOr(ShiftLeft(ShiftRight(r, 3), 11), ShiftLeft(ShiftRight(g, 2), 5)),
          ShiftRight(b, 3)) % 65536

\* the arguments are kept in call.env
st77xx_rgb888_to_rgb565(r, g, b) ==
    /\ CalledEnv("rgb888_to_rgb565", rgb888_to_rgb565(r, g, b), <<>>, <<r, g, b>>)
    /\ UNCHANGED <<drawRest, surf, txt>>

(***************************************************************************)
(* SpecDraw: one drawing call on a cleared surface of the small panel, the *)
(* surface being a full frame (the front buffer) or the stripe buffer.     *)
(***************************************************************************)
Allocated(kind) == [live |-> TRUE, kind |-> kind, val |-> ValColor(0), slots |-> <<>>]

InitDraw ==
    /\ model = "small"
    /\ \E frame \in BOOLEAN :
        /\ fb_front = IF frame THEN 3 ELSE NULL
        /\ fb_back = IF frame THEN 4 ELSE NULL
        /\ swap_base = <<fb_front, fb_back>>
        /\ stripe_buffer = IF frame THEN NULL ELSE 6
        /\ heap = [c \in Cells |->
                    IF frame /\ c \in {3, 4} THEN Allocated("fb")
                    ELSE IF ~frame /\ c = 6 THEN Allocated("stripe")
                    ELSE FreeCell]
        /\ surf = [ptr |-> IF frame THEN 3 ELSE 6,
                   pix |-> [i \in 1..(ST77XX_WIDTH *
                                       (IF frame THEN ST77XX_HEIGHT
                                        ELSE ST77XX_STRIPE_HEIGHT)) |-> 0],
                   written |-> {}]
    /\ bad_free = FALSE
    /\ spi_handle = NULL
    /\ dma_buffer = NULL
    /\ dma_buffer_size = 0
    /\ window_set = FALSE
    /\ driver_initialized = FALSE
    /\ swap_run = 0
    /\ current_stripe = 0
    /\ preloaded_frames = NULL
    /\ preloaded_count = 0
    /\ panel_window = NoWindow
    /\ call = NoCall
    /\ frame_calls = -1
    /\ frame_bands = <<>>
    /\ pre_in = NoPreload
    /\ payload = <<>>
    /\ wire = <<>>
    /\ txt = NoText
    /\ mem_mon = MonitorOff

\* the surface handed to a drawing call: the one followed, or NULL
Surfaces == {NULL, surf.ptr}

\* rectangles: from two to the left of (above) the surface to one past it,
\* sizes from -2 to two more than the surface
RectXs == -2..(ST77XX_WIDTH + 1)
RectYs == -2..(ST77XX_HEIGHT + 1)
RectWs == -2..(ST77XX_WIDTH + 2)
RectHs == -2..(ST77XX_HEIGHT + 2)

\* texts: a newline, a control character that has no glyph, 'A', a stray
\* continuation byte, 0xF8, the bytes of U+00F1 (C3 B1) and of U+4F60
\* (E4 BD A0), and the lead byte of a four-byte sequence; and the text
\* U+6708 (E6 9C 88)
TextBytes == {10, 7, 65, 128, 248, 195, 177, 228, 189, 160, 240}
Texts == UNION {[1..n -> TextBytes] : n \in 0..MaxText} \cup {<<230, 156, 136>>}
Beyonds == {<<0, 0, 0>>, <<65, 65, 65>>}
TextOrigins == {<<0, 0>>, <<2, 1>>}
Scales == {1, 2}

\* 8-bit color components: the ends of the range, and the values around
\* the bits the conversion drops
Components == {0, 1, 3, 4, 7, 8, 85, 127, 128, 170, 248, 251, 252, 255}

\* colors given to the fills: black, a color of mixed bits, white
FillColors == {0, 4660, 65535}

NextDraw ==
    /\ call.op = "none"
    /\ \/ \E fb \in Surfaces, x \in RectXs, y \in RectYs, c \in Colors :
            st77xx_draw_pixel(fb, x, y, c)
       \/ \E fb \in {NULL, fb_front}, c \in FillColors : st77xx_fill_screen(fb, c)
       \/ \E c \in FillColors : st77xx_stripe_fill(c)
       \/ \E r \in Components, g \in Components, b \in Components :
            st77xx_rgb888_to_rgb565(r, g, b)
       \/ \E fb \in Surfaces, x \in RectXs, y \in RectYs, w \in RectWs,
             h \in RectHs, c \in Colors :
            st77xx_fill_rect(fb, x, y, w, h, c)
       \/ \E x \in RectXs, y \in RectYs, w \in RectWs, h \in RectHs, c \in Colors :
            st77xx_stripe_fill_rect(x, y, w, h, c)
       \/ \E bytes \in Texts, beyond \in Beyonds, o \in TextOrigins, c \in Colors,
             s \in Scales, font \in Fonts :
            st77xx_draw_text_unicode(surf.ptr, TRUE, bytes, beyond, o[1], o[2], c, s,
                                     font)
       \/ \E fb \in Surfaces, text_ok \in BOOLEAN, o \in TextOrigins, c \in Colors,
             s \in Scales, font \in Fonts \cup {NULL} :
            /\ fb = NULL \/ ~text_ok \/ font = NULL
            /\ st77xx_draw_text_unicode(fb, text_ok, <<65>>, <<0, 0, 0>>, o[1], o[2],
                                        c, s, font)

SpecDraw == InitDraw /\ [][NextDraw]_vars

(***************************************************************************)
(* SpecNull: a client that sets the driver up, flushes and swaps, and     *)
(* hands null pointers to the calls that take a surface, a text or a font. *)
(***************************************************************************)
NextNull ==
    \/ \E ok \in BOOLEAN : st77xx_init(ok)
    \/ \E ok1, ok2 \in BOOLEAN : st77xx_init_double_buffers(ok1, ok2)
    \/ st77xx_cleanup_double_buffers
    \/ BusReady /\ \E fb \in FrameSurfaces \cup {NULL} : st77xx_flush(fb)
    \/ BusReady /\ \E fb \in FrameSurfaces \cup {NULL} : st77xx_flush_immediate(fb)
    \/ BusReady /\ st77xx_swap_and_display
    \/ BusReady /\ \E o \in Orientations : st77xx_set_orientation(o)
    \/ \E c \in Colors : st77xx_draw_pixel(NULL, 1, 1, c)
    \/ \E c \in Colors : st77xx_fill_rect(NULL, 0, 0, 2, 2, c)
    \/ \E c \in Colors : st77xx_fill_screen(NULL, c)
    \/ \E fb \in FrameSurfaces \cup {NULL}, text_ok \in BOOLEAN, c \in Colors,
          font \in Fonts \cup {NULL} :
        /\ fb = NULL \/ ~text_ok \/ font = NULL
        /\ st77xx_draw_text_unicode(fb, text_ok, <<65>>, <<0, 0, 0>>, 0, 0, c, 1, font)

SpecNull == Init /\ [][NextNull]_vars

(***************************************************************************)
(* The memory-monitor task.  mem_monitor_start creates it; each turn of    *)
(* its loop reads the allocator's statistics, logs them and sleeps.        *)
(***************************************************************************)
\* the variables of the driver, the bus and the panel
driverVars ==
    <<model, heap, bad_free, spi_handle, dma_buffer, dma_buffer_size, window_set,
      driver_initialized, fb_front, fb_back, swap_run, swap_base, stripe_buffer,
      current_stripe, preloaded_frames, preloaded_count, panel_window, call,
      frame_calls, frame_bands, pre_in, payload, wire, surf, txt>>

\* esp_get_free_heap_size(): what the allocator has left
esp_get_free_heap_size == Cardinality({c \in Cells : ~heap[c].live})

\* mem_monitor_start with CONFIG_MEM_MONITOR_ENABLE: app_main calls it once,
\* after st77xx_init
mem_monitor_start ==
    /\ mem_mon.pc = "off"
    /\ driver_initialized
    /\ mem_mon' = [pc |-> "read", heap_free |-> 0]
    /\ UNCHANGED driverVars

\* a turn of the task that also restarts the stripe frame
MonitorReadRestartsFrame ==
    /\ mem_mon.pc = "read"
    /\ mem_mon' = [pc |-> "log", heap_free |-> esp_get_free_heap_size]
    /\ current_stripe' = 0
    /\ UNCHANGED <<model, heap, bad_free, spi_handle, dma_buffer, dma_buffer_size,
                   window_set, driver_initialized, fb_front, fb_back, swap_run,
                   swap_base, stripe_buffer, preloaded_frames, preloaded_count,
                   panel_window, call, frame_calls, frame_bands, pre_in, payload,
                   wire, surf, txt>>

\* mem_monitor_task: the calls that read the heap statistics
mem_monitor_task_read ==
    /\ mem_mon.pc = "read"
    /\ mem_mon' = [pc |-> "log", heap_free |-> esp_get_free_heap_size]
    /\ UNCHANGED driverVars

\* mem_monitor_task: ESP_LOGI of what was read (to the log, not the bus)
mem_monitor_task_log ==
    /\ mem_mon.pc = "log"
    /\ mem_mon' = [mem_mon EXCEPT !.pc = "delay"]
    /\ UNCHANGED driverVars

\* mem_monitor_task: vTaskDelay, then the next turn
mem_monitor_task_delay ==
    /\ mem_mon.pc = "delay"
    /\ mem_mon' = [pc |-> "read", heap_free |-> 0]
    /\ UNCHANGED driverVars

(***************************************************************************)
(* SpecMonitor: the control thread making the calls app_main makes to show *)
(* a picture by stripes, in any order, and the monitor task taking its     *)
(* steps in between.                                                       *)
(***************************************************************************)
\* the calls of the control thread
NextControl ==
    \/ \E ok \in BOOLEAN : st77xx_init(ok)
    \/ \E ok \in BOOLEAN : st77xx_init_stripe_mode(ok)
    \/ st77xx_stripe_get_buffer
    \/ \E c \in Colors : st77xx_stripe_fill(c)
    \/ st77xx_stripe_begin_frame
    \/ BusReady /\ st77xx_stripe_flush_next
    \/ st77xx_cleanup_stripe_mode

NextMonitor ==
    \/ NextControl
    \/ mem_monitor_start
    \/ mem_monitor_task_read
    \/ mem_monitor_task_log
    \/ mem_monitor_task_delay

SpecMonitor == Init /\ [][NextMonitor]_vars

(***************************************************************************)
(* Properties                                                              *)
(***************************************************************************)
RECURSIVE SumLens(_, _)
SumLens(bus, k) == IF k = 0 THEN 0 ELSE bus[k][4] + SumLens(bus, k - 1)

CeilDiv(a, b) == (a + b - 1) \div b

\* C1: with the transfer buffer allocated, one send_data_dma of L bytes with
\* capacity C issues exactly ceil(L/C) transfers, each of 1..C bytes, chunk k
\* starting where chunk k-1 ended (the first at 0), the lengths summing to L.
C1_ChunkedSend ==
    (call.op = "send_data_dma" /\ dma_buffer # NULL) =>
        LET L == Len(payload)
            C == dma_buffer_size
            n == Len(call.bus)
        IN  /\ n = CeilDiv(L, C)
            /\ \A k \in 1..n :
                /\ call.bus[k][1] = "dma"
                /\ call.bus[k][4] >= 1
                /\ call.bus[k][4] <= C
                /\ call.bus[k][3] = SumLens(call.bus, k - 1)
            /\ SumLens(call.bus, n) = L
            /\ Len(wire) = L

\* a payload of three chunks, the last one partial, has been sent
C1_Witness ==
    /\ call.op = "send_data_dma"
    /\ dma_buffer # NULL
    /\ Len(payload) = 7
    /\ dma_buffer_size = 3
    /\ Len(call.bus) = 3
    /\ call.bus[3][4] = 1

\* the events of a bus log that are data transfers through the DMA buffer
DmaEvents(bus) == SelectSeq(bus, LAMBDA e : e[1] = "dma")

\* the bytes a bus log transfers through the DMA buffer
DmaTotal(bus) == SumLens(DmaEvents(bus), Len(DmaEvents(bus)))

\* the commands of a bus log, in order
CmdsOf(bus) ==
    LET cs == SelectSeq(bus, LAMBDA e : e[1] = "cmd")
    IN  [k \in 1..Len(cs) |-> cs[k][2]]

\* the rectangle a bus log addresses, as the panel understands it
WindowOf(bus) == PanelAfter(NoWindow, bus, 1)

\* the panel rectangle of stripe i: all columns, rows [i*h, i*h + h - 1],
\* plus the origin offsets
StripeBand(i) ==
    <<ST77XX_X_OFFSET, ST77XX_WIDTH - 1 + ST77XX_X_OFFSET,
      i * ST77XX_STRIPE_HEIGHT + ST77XX_Y_OFFSET,
      i * ST77XX_STRIPE_HEIGHT + ST77XX_STRIPE_HEIGHT - 1 + ST77XX_Y_OFFSET>>

\* the bus log sends the whole stripe buffer, and nothing else, as data
SendsStripe(bus) ==
    /\ DmaTotal(bus) = ST77XX_STRIPE_SIZE
    /\ \A k \in 1..Len(bus) : bus[k][1] = "dma" => bus[k][2] = stripe_buffer

\* the return values and the addressing of the k-th flush_next after
\* begin_frame; what is asked of the data is the parameter
FrameSequence(data_ok(_)) ==
    (stripe_buffer # NULL /\ frame_calls >= 1 /\ call.op = "stripe_flush_next") =>
        IF frame_calls <= ST77XX_STRIPE_COUNT
        THEN /\ current_stripe = frame_calls
             /\ call.ret = (IF frame_calls < ST77XX_STRIPE_COUNT THEN frame_calls ELSE -1)
             /\ WindowOf(call.bus) = StripeBand(frame_calls - 1)
             /\ data_ok(call.bus)
        ELSE /\ call.ret = -1
             /\ call.bus = <<>>

\* C2 as stated: with the stripe buffer allocated, the k-th flush_next after
\* begin_frame transfers stripe k-1 and returns k (k < stripe_count), the
\* stripe_count-th returns -1, every further one returns -1 and puts nothing
\* on the bus.
C2_AsStated == FrameSequence(SendsStripe)

\* C2 as amended: the same return values and addressing, the stripe's bytes
\* being transferred whenever the transfer buffer is allocated and no data
\* at all when it is not.
C2_FrameSequence ==
    FrameSequence(LAMBDA bus : IF dma_buffer # NULL THEN SendsStripe(bus)
                               ELSE DmaEvents(bus) = <<>>)

\* a whole frame has been flushed with the transfer buffer in place, and one
\* more flush_next has answered -1 without touching the bus
C2_Witness ==
    /\ stripe_buffer # NULL
    /\ dma_buffer # NULL
    /\ model = "ST7796S"
    /\ frame_calls = ST77XX_STRIPE_COUNT + 1
    /\ call.op = "stripe_flush_next"
    /\ call.ret = -1
    /\ call.bus = <<>>

\* every addressing command (CASET, RASET) of the log comes before its
\* first data transfer
AddressedBeforeData(bus) ==
    \A j, k \in 1..Len(bus) :
        (bus[j][1] = "dma" /\ bus[k][1] = "cmd" /\ bus[k][2] \in {CMD_CASET, CMD_RASET})
            => k < j

\* the data transfers of the log are consecutive pieces of the surface at
\* src, from its first byte on, size bytes in all
StreamsSurface(bus, src, size) ==
    LET d == DmaEvents(bus)
    IN  /\ SumLens(d, Len(d)) = size
        /\ \A k \in 1..Len(d) : d[k][2] = src /\ d[k][3] = SumLens(d, k - 1)

\* a step of flush_next taken in FrameActive(i) addresses the band of stripe
\* i before any data, and the data is what the parameter asks
StripeFlush(data_ok(_)) ==
    (call'.op = "stripe_flush_next" /\ stripe_buffer # NULL
        /\ current_stripe < ST77XX_STRIPE_COUNT)
    => /\ WindowOf(call'.bus) = StripeBand(current_stripe)
       /\ CMD_CASET \in {CmdsOf(call'.bus)[k] : k \in 1..Len(CmdsOf(call'.bus))}
       /\ CMD_RASET \in {CmdsOf(call'.bus)[k] : k \in 1..Len(CmdsOf(call'.bus))}
       /\ AddressedBeforeData(call'.bus)
       /\ data_ok(call'.bus)

\* C3 as stated: flush_next in FrameActive(i) addresses columns [0, width-1]
\* and rows [i*h, i*h + h - 1] (plus offsets) before any pixel data and then
\* streams exactly width*h*2 bytes of the stripe surface.
C3_AsStated ==
    [][StripeFlush(LAMBDA bus :
            StreamsSurface(bus, stripe_buffer, ST77XX_WIDTH * ST77XX_STRIPE_HEIGHT * 2))]_vars

\* C3 as amended: the addressing as stated; the width*h*2 bytes are streamed
\* when the transfer buffer is allocated, and no data at all when it is not.
C3_StripeFlush ==
    [][StripeFlush(LAMBDA bus :
            IF dma_buffer # NULL
            THEN StreamsSurface(bus, stripe_buffer,
                                ST77XX_WIDTH * ST77XX_STRIPE_HEIGHT * 2)
            ELSE DmaEvents(bus) = <<>>)]_vars

\* the second flush_next of a frame on the 480-wide panel: rows [27, 53]
\* addressed, 480*27*2 bytes streamed
C3_Witness ==
    /\ model = "ST7796S"
    /\ call.op = "stripe_flush_next"
    /\ call.ret = 2
    /\ current_stripe = 2
    /\ WindowOf(call.bus) = <<0, 479, 27, 53>>
    /\ DmaTotal(call.bus) = 25920

\* C4: in a configuration that init_stripe_mode has accepted, the stripe
\* height divides the panel height, and the bands addressed by the
\* stripe_count flush_next calls of a complete frame cover every panel row
\* exactly once.
C4_StripesCoverPanel ==
    (stripe_buffer # NULL /\ frame_calls = ST77XX_STRIPE_COUNT
        /\ Len(frame_bands) = ST77XX_STRIPE_COUNT)
    => /\ ST77XX_STRIPE_COUNT * ST77XX_STRIPE_HEIGHT = ST77XX_HEIGHT
       /\ \A row \in ST77XX_Y_OFFSET..(ST77XX_Y_OFFSET + ST77XX_HEIGHT - 1) :
            Cardinality({k \in 1..Len(frame_bands) :
                            frame_bands[k][1] <= row /\ row <= frame_bands[k][2]}) = 1

\* C5: whenever flush (directly or through swap_and_display) sends a frame
\* to the panel, the rectangle the panel has last been told to address is
\* the full panel, whatever set_window, flush_next, stripe_draw_image and
\* set_orientation calls came before.
C5_FlushIntoFullPanel ==
    (call.op \in {"flush", "swap_and_display"} /\ DmaEvents(call.bus) # <<>>)
        => panel_window = FullPanel

\* what a step of swap_and_display with both surfaces allocated does to the
\* labels and the pixels, flushed(_) being what is asked of its bus traffic
SwapStep(flushed(_)) ==
    (call'.op = "swap_and_display" /\ fb_front # NULL /\ fb_back # NULL)
    => /\ fb_front' = fb_back
       /\ fb_back' = fb_front
       /\ heap' = heap
       /\ flushed(call'.bus)
       /\ (swap_run' = 0 => <<fb_front', fb_back'>> = swap_base')

\* the log streams the whole frame at src, holding val, and no other data
FlushesFrame(bus, src, val) ==
    /\ StreamsSurface(bus, src, ST77XX_FB_SIZE)
    /\ \A k \in 1..Len(bus) :
        bus[k][1] = "dma" => <<bus[k][5], bus[k][6], bus[k][7]>> = val

\* C6 as stated: with both surfaces allocated swap_and_display exchanges the
\* labels and changes no pixel, the surface that was back is the one flushed
\* to the panel with the contents it held, and a second swap restores the
\* labels.
C6_AsStated ==
    [][SwapStep(LAMBDA bus : FlushesFrame(bus, fb_back, heap[fb_back].val))]_vars

\* C6 as amended: the labels and pixels as stated; the surface that was back
\* is streamed to the panel when the transfer buffer is allocated, and no
\* data is sent when it is not.
C6_SwapExchangesLabels ==
    [][SwapStep(LAMBDA bus :
            IF dma_buffer # NULL
            THEN FlushesFrame(bus, fb_back, heap[fb_back].val)
            ELSE DmaEvents(bus) = <<>>)]_vars

\* a second swap in a row has put the labels back and has streamed the
\* surface nothing was drawn into, zeroed as init left it, while the other
\* surface keeps the colour drawn into it
C6_Witness ==
    /\ call.op = "swap_and_display"
    /\ dma_buffer # NULL
    /\ fb_front # NULL
    /\ swap_run = 0
    /\ <<fb_front, fb_back>> = swap_base
    /\ ValAt(fb_front) = ValColor(0)
    /\ ValAt(fb_back) = ValColor(4660)
    /\ FlushesFrame(call.bus, fb_front, ValColor(0))

\* the surfaces of the double buffer that are allocated
LiveSurfaces == {c \in Cells : heap[c].live /\ heap[c].kind = "fb"}

\* C7: front and back are both unset, or both set and distinct; the
\* allocated surfaces are exactly the ones the handles name; and when either
\* malloc of init_double_buffers fails, both handles are unset and nothing
\* stays allocated.
C7_PairNeverHalfBuilt ==
    /\ \/ fb_front = NULL /\ fb_back = NULL
       \/ fb_front # NULL /\ fb_back # NULL /\ fb_front # fb_back
    /\ LiveSurfaces = {fb_front, fb_back} \ {NULL}
    /\ ~bad_free
    /\ (call.op = "init_double_buffers" /\ Len(call.env) = 2
            /\ (call.env[1] = NULL \/ call.env[2] = NULL))
        => (fb_front = NULL /\ fb_back = NULL /\ LiveSurfaces = {})

\* the first surface was granted, the second refused, and the first has
\* been released again
C7_Witness ==
    /\ call.op = "init_double_buffers"
    /\ Len(call.env) = 2
    /\ call.env[1] # NULL
    /\ call.env[2] = NULL
    /\ fb_front = NULL
    /\ fb_back = NULL
    /\ ~heap[call.env[1]].live

\* file j of the last preload call was opened, given a buffer and read in
\* full (no file is opened when the call returns early or gets no index
\* array)
FileLoaded(j) == pre_in.dir_ok /\ pre_in.arr_ok /\ pre_in.out[j] = "ok"

\* the frame buffer at index i of the preloaded set
SlotAt(i) == heap[preloaded_frames].slots[i + 1]

\* C8: preload(dir, N) with N >= 1 returns the largest k <= N such that
\* files 1.bin..k.bin all loaded (it stops at the first file that does
\* not), and the frames of these files are at indices 0..k-1 in file order.
C8_PreloadCount ==
    (call.op = "preload_frames" /\ pre_in.max >= 1) =>
        LET k == call.ret
        IN  /\ k \in 0..pre_in.max
            /\ \A j \in 1..k : FileLoaded(j)
            /\ k < pre_in.max => ~FileLoaded(k + 1)
            /\ k > 0 => /\ preloaded_frames # NULL
                        /\ \A i \in 0..(k - 1) :
                            /\ SlotAt(i) \in Cells
                            /\ heap[SlotAt(i)].live
                            /\ heap[SlotAt(i)].val = ValFrame(i + 1)

\* the first file loaded, the second came back short: one frame, file 1, at
\* index 0
C8_Witness ==
    /\ call.op = "preload_frames"
    /\ pre_in.max = 2
    /\ pre_in.out = <<"ok", "short">>
    /\ call.ret = 1
    /\ heap[SlotAt(0)].val = ValFrame(1)

\* the cells the preloader holds
LivePreloaded == {c \in Cells : heap[c].live /\ heap[c].kind \in {"array", "frame"}}

\* the cells reachable from the preloader's handles: the index array and the
\* buffers at indices [0, preloaded_count)
ReachablePreloaded ==
    IF preloaded_frames = NULL THEN {}
    ELSE {preloaded_frames} \cup {SlotAt(i) : i \in 0..(preloaded_count - 1)}

\* C9: the cells the preloader holds are exactly the index array and the
\* frame buffers at indices [0, count), each buffer a different cell, and no
\* cell was ever freed twice.
C9_NoLeakNoDoubleFree ==
    /\ LivePreloaded = ReachablePreloaded
    /\ preloaded_frames # NULL =>
            Cardinality(ReachablePreloaded) = preloaded_count + 1
    /\ ~bad_free

\* a second preload over a loaded set of two, whose second file came back
\* short: the old set is gone, the discarded buffer is gone, the array and
\* one frame are held
C9_Witness ==
    /\ call.op = "preload_frames"
    /\ pre_in.prior = 2
    /\ pre_in.out = <<"ok", "short">>
    /\ preloaded_count = 1
    /\ Cardinality(LivePreloaded) = 2

\* C10: the value preload returns is the loaded count afterwards, and when
\* it is 0 no set remains: the index array is unset, the count is 0 and
\* nothing is held, whatever the arguments and the set loaded before.
C10_ZeroMeansReleased ==
    call.op = "preload_frames" =>
        /\ call.ret = preloaded_count
        /\ call.ret = 0 => /\ preloaded_frames = NULL
                           /\ preloaded_count = 0
                           /\ LivePreloaded = {}

\* s with the bytes of each adjacent pair (2k, 2k+1) exchanged, a last
\* unpaired byte staying where it is
PairsReversed(s) ==
    [i \in 1..Len(s) |->
        IF i % 2 = 0 THEN s[i - 1]
        ELSE IF i < Len(s) THEN s[i + 1] ELSE s[i]]

\* C15: with the transfer buffer allocated (its capacity even, as
\* ST77XX_DMA_BUFFER_SIZE is), the bytes one chunked send puts on the bus,
\* taken together, are the payload with each adjacent byte pair reversed;
\* the last byte of an odd payload is sent as it is.
C15_PairsReversedOnBus ==
    (call.op = "send_data_dma" /\ dma_buffer # NULL /\ dma_buffer_size % 2 = 0) =>
        wire = PairsReversed(payload)

\* six bytes through a buffer of four: two transfers, three pairs reversed
C15_Witness ==
    /\ call.op = "send_data_dma"
    /\ dma_buffer # NULL
    /\ dma_buffer_size = 4
    /\ payload = <<1, 2, 3, 4, 5, 6>>
    /\ wire = <<2, 1, 4, 3, 6, 5>>

\* C11: the index array is unset exactly when the loaded count is 0, it is a
\* live allocation whenever it is set, and get(index) returns the live
\* buffer holding file index+1 in full when 0 <= index < count and null for
\* every other index.
C11_GetBoundsChecked ==
    /\ (preloaded_frames = NULL) <=> (preloaded_count = 0)
    /\ preloaded_frames # NULL =>
            /\ heap[preloaded_frames].live
            /\ heap[preloaded_frames].kind = "array"
    /\ call.op = "get_preloaded_frame" =>
            LET index == call.env[1]
            IN  IF 0 <= index /\ index < preloaded_count
                THEN /\ call.ret \in Cells
                     /\ heap[call.ret].live
                     /\ heap[call.ret].kind = "frame"
                     /\ heap[call.ret].val = ValFrame(index + 1)
                ELSE call.ret = NULL

\* the second frame of a loaded set of two was asked for and returned
C11_Witness ==
    /\ call.op = "get_preloaded_frame"
    /\ call.env = <<1>>
    /\ preloaded_count = 2
    /\ call.ret # NULL
    /\ heap[call.ret].val = ValFrame(2)

\* how many times command c occurs in a bus log
CmdCount(bus, c) == Cardinality({k \in 1..Len(bus) : bus[k] = <<"cmd", c>>})

\* the bytes of a file of fsize bytes that the s-th stripe-sized read (from
\* 0) obtains
BytesOfRead(fsize, s) ==
    LET from == s * ST77XX_WIDTH * ST77XX_STRIPE_HEIGHT * 2
        want == ST77XX_WIDTH * ST77XX_STRIPE_HEIGHT * 2
    IN  IF fsize <= from THEN 0
        ELSE IF fsize - from < want THEN fsize - from ELSE want

\* the data transfers of the log are stripe_count transfers of the whole
\* stripe buffer, the s-th holding what the s-th read of the file obtained
\* (zeros after it)
StreamsFileByStripes(bus, fsize) ==
    LET d == DmaEvents(bus)
    IN  /\ Len(d) = ST77XX_HEIGHT \div ST77XX_STRIPE_HEIGHT
        /\ \A k \in 1..Len(d) :
                d[k] = <<"dma", stripe_buffer, 0, ST77XX_WIDTH * ST77XX_STRIPE_HEIGHT * 2,
                         3, (k - 1) * ST77XX_WIDTH * ST77XX_STRIPE_HEIGHT * 2,
                         BytesOfRead(fsize, k - 1)>>

\* after draw_from_stream on an opened file: the full panel was addressed
\* once, before any data, and the data is what the parameter asks
ImageStream(data_ok(_, _)) ==
    (call.op = "stripe_draw_image" /\ call.ret = 1) =>
        /\ CmdCount(call.bus, CMD_CASET) = 1
        /\ CmdCount(call.bus, CMD_RASET) = 1
        /\ WindowOf(call.bus) = FullPanel
        /\ \A j, k \in 1..Len(call.bus) :
                (call.bus[j][1] = "dma" /\ call.bus[k][1] = "cmd") => k < j
        /\ data_ok(call.bus, call.env[1])

\* C19 as stated: draw_from_stream on an opened file addresses the full
\* panel once, then makes stripe_count transfers of one stripe each (the
\* bytes read, then zeros), with no command between them.
C19_AsStated == ImageStream(StreamsFileByStripes)

\* C19 as amended: the same, the stripe_count transfers being made when the
\* transfer buffer is allocated and no data being sent when it is not.
C19_ImageStream ==
    ImageStream(LAMBDA bus, fsize :
                    IF dma_buffer # NULL THEN StreamsFileByStripes(bus, fsize)
                    ELSE DmaEvents(bus) = <<>>)

\* a file of one stripe and 100 bytes streamed to the 480-wide panel: eleven
\* transfers, the second holding the last 100 bytes of the file
C19_Witness ==
    /\ model = "ST7796S"
    /\ call.op = "stripe_draw_image"
    /\ call.ret = 1
    /\ call.env = <<25920 + 100>>
    /\ Len(DmaEvents(call.bus)) = 11
    /\ DmaEvents(call.bus)[2][7] = 100
    /\ DmaEvents(call.bus)[3][7] = 0

\* C20: the rectangle set_window transmits is normalized: before the origin
\* offsets, 0 <= x0' <= x1' <= width-1 and 0 <= y0' <= y1' <= height-1, and
\* the begin-write command ends the call.
C20_WindowNormalized ==
    call.op = "set_window" =>
        LET w == WindowOf(call.bus)
        IN  /\ ST77XX_X_OFFSET <= w[1] /\ w[1] <= w[2]
            /\ w[2] <= ST77XX_WIDTH - 1 + ST77XX_X_OFFSET
            /\ ST77XX_Y_OFFSET <= w[3] /\ w[3] <= w[4]
            /\ w[4] <= ST77XX_HEIGHT - 1 + ST77XX_Y_OFFSET
            /\ call.bus[Len(call.bus)] = <<"cmd", CMD_RAMWR>>

\* the pixel positions of the rectangle (x, y, w, h) that a surface of the
\* given number of rows has
RectPixels(x, y, w, h, rows) ==
    {r * ST77XX_WIDTH + c :
        r \in {r \in 0..(rows - 1) : y <= r /\ r < y + h},
        c \in {c \in 0..(ST77XX_WIDTH - 1) : x <= c /\ c < x + w}}

\* the call stored color to the positions ps and to no other, and the
\* surface, cleared before, now has color at ps and nowhere else
PaintedExactly(ps, color) ==
    /\ surf.written = ps
    /\ \A i \in 1..Len(surf.pix) :
            surf.pix[i] = IF (i - 1) \in ps THEN color ELSE 0

\* the last call was op, on an allocated surface, with a rectangle
RectCall(op) == call.op = op /\ call.env[1] # NULL

\* C12: for w > 0 and h > 0, fill_rect on a full-frame surface and stripe
\* fill_rect on the stripe surface set to color exactly the pixels of the
\* rectangle that the surface has, and store to no other position.
C12_FillRectClipped ==
    /\ (RectCall("fill_rect") /\ surf.ptr = fb_front
            /\ call.env[4] > 0 /\ call.env[5] > 0) =>
        PaintedExactly(RectPixels(call.env[2], call.env[3], call.env[4],
                                  call.env[5], ST77XX_HEIGHT), call.env[6])
    /\ (RectCall("stripe_fill_rect") /\ call.env[4] > 0 /\ call.env[5] > 0) =>
        PaintedExactly(RectPixels(call.env[2], call.env[3], call.env[4],
                                  call.env[5], ST77XX_STRIPE_HEIGHT), call.env[6])

\* a rectangle wider than the frame, hanging over its left, right and bottom
\* edges, takes the full-width path and fills the last row alone
C12_Witness ==
    /\ RectCall("fill_rect")
    /\ surf.ptr = fb_front
    /\ call.env = <<fb_front, -1, ST77XX_HEIGHT - 1, ST77XX_WIDTH + 2, 3, 4660>>
    /\ surf.written = {(ST77XX_HEIGHT - 1) * ST77XX_WIDTH + c :
                            c \in 0..(ST77XX_WIDTH - 1)}

\* C13: fill_rect and stripe fill_rect with a width or a height that is zero
\* or negative, or that leaves no pixel after clipping, store to no
\* position at all.
C13_DegenerateRectNoOp ==
    \A op \in {"fill_rect", "stripe_fill_rect"} :
        (RectCall(op)
            /\ \/ call.env[4] <= 0
               \/ call.env[5] <= 0
               \/ RectPixels(call.env[2], call.env[3], call.env[4], call.env[5],
                             Len(surf.pix) \div ST77XX_WIDTH) = {})
        => /\ surf.written = {}
           /\ \A i \in 1..Len(surf.pix) : surf.pix[i] = 0

\* C14: every store of set_pixel, fill_rect, stripe fill_rect and draw_text
\* is to a pixel of the surface the call was given.
C14_StoresInsideSurface ==
    call.op \in {"draw_pixel", "fill_rect", "stripe_fill_rect", "draw_text"} =>
        surf.written \subseteq 0..(Len(surf.pix) - 1)

\* draw_text ran its loop on a text
TextDrawn == call.op = "draw_text" /\ call.env[1] # NULL /\ txt.font # NULL

\* a byte that cannot begin a sequence: a continuation byte, or 0xF8 and up
MalformedLead(b) == (128 <= b /\ b <= 191) \/ b >= 248

\* C16: a turn of the loop that meets a malformed leading byte moves forward
\* by exactly one byte, and decoding goes on: unless the text ends there,
\* another turn follows.
C16_MalformedByteSkipped ==
    TextDrawn =>
        \A k \in 1..Len(txt.turns) :
            LET t == txt.turns[k]
            IN  (t[1] < Len(txt.bytes) /\ MalformedLead(txt.bytes[t[1] + 1])) =>
                    /\ t[3] = t[1] + 1
                    /\ t[3] < Len(txt.bytes) => k < Len(txt.turns)

\* the code point has a glyph
InGlyphMap(cp) == \E i \in 1..Len(font_char_map) : font_char_map[i] = cp

\* C17: the first turn starts at (x, y) and each turn where the last left
\* the cursor; a newline puts the cursor at x, (glyph_height + 2) * s lower,
\* and draws nothing; any other code point moves it glyph_width * s to the
\* right, and the glyph is drawn, at the cursor before the move, exactly
\* when the code point is in the map.
C17_CursorRule ==
    TextDrawn =>
        /\ \A k \in 1..Len(txt.turns) :
            LET t == txt.turns[k]
            IN  /\ t[5] = (IF k = 1 THEN txt.x ELSE txt.turns[k - 1][7])
                /\ t[6] = (IF k = 1 THEN txt.y ELSE txt.turns[k - 1][8])
                /\ t[2] = 10 =>
                        /\ t[7] = txt.x
                        /\ t[8] = t[6] + (12 + 2) * txt.scale
                        /\ t[9] = 0
                /\ t[2] \notin {0, 10} =>
                        /\ t[7] = t[5] + 8 * txt.scale
                        /\ t[8] = t[6]
                        /\ t[9] = (IF InGlyphMap(t[2]) THEN 1 ELSE 0)
        /\ surf.written =
                UNION {IF InGlyphMap(txt.turns[k][2])
                       THEN draw_glyph(txt.turns[k][5], txt.turns[k][6],
                                       txt.turns[k][4], txt.scale, txt.font)
                       ELSE {} : k \in 1..Len(txt.turns)}

\* "A", a character without glyph, a newline, at scale 2 from (2, 1): the
\* glyph at (2, 1), the cursor at 18, then at 34, then at (2, 29)
C17_Witness ==
    /\ TextDrawn
    /\ txt.bytes = <<65, 7, 10>>
    /\ txt.scale = 2
    /\ txt.x = 2 /\ txt.y = 1
    /\ txt.turns[1][7] = 18 /\ txt.turns[1][9] = 1
    /\ txt.turns[2][7] = 34 /\ txt.turns[2][9] = 0
    /\ txt.cx = 2 /\ txt.cy = 29

\* the three-byte sequences of the code points of the map that need three
\* bytes
ThreeByteTexts == {<<228, 189, 160>>, <<230, 156, 136>>}
CodePointOf(bytes) == IF bytes = <<228, 189, 160>> THEN 20320 ELSE 26376

\* C18: for a text that is the single three-byte sequence of U+4F60 or
\* U+6708 the loop takes one turn: it decodes that code point from the
\* three bytes, draws the glyph at the code point's position in the map at
\* the starting cursor, and leaves the cursor glyph_width * scale further.
C18_ThreeByteGlyph ==
    (TextDrawn /\ txt.bytes \in ThreeByteTexts) =>
        /\ Len(txt.turns) = 1
        /\ txt.turns[1][1] = 0
        /\ txt.turns[1][2] = CodePointOf(txt.bytes)
        /\ txt.turns[1][3] = 3
        /\ txt.turns[1][9] = 1
        /\ font_char_map[txt.turns[1][4] + 1] = CodePointOf(txt.bytes)
        /\ surf.written = draw_glyph(txt.x, txt.y, txt.turns[1][4], txt.scale, txt.font)
        /\ txt.cx = txt.x + 8 * txt.scale
        /\ txt.cy = txt.y

\* U+4F60 at scale 2 from (2, 1) on the frame: glyph 107, pixels stored,
\* the cursor at 18
C18_Witness ==
    /\ TextDrawn
    /\ surf.ptr = fb_front
    /\ txt.bytes = <<228, 189, 160>>
    /\ txt.scale = 2
    /\ txt.x = 2
    /\ txt.turns[1][4] = 107
    /\ surf.written # {}
    /\ txt.cx = 18

\* a step that is a flush of a surface, made directly or by swap_and_display
FlushStep == call'.op \in {"flush", "swap_and_display"} /\ call'.bus # <<>>

\* the log addresses the full panel, once, before any data
AddressesFullPanel(bus) ==
    /\ CmdCount(bus, CMD_CASET) = 1
    /\ CmdCount(bus, CMD_RASET) = 1
    /\ WindowOf(bus) = FullPanel
    /\ AddressedBeforeData(bus)

\* C21: set_orientation (and with it the initialization of the driver)
\* leaves the window cache invalid; nothing but a flush makes an invalid
\* cache valid; and a flush that finds the cache invalid sends the
\* addressing commands of the full panel before the pixel data.  So the
\* first flush after an orientation change never sends begin-write alone.
C21_OrientationInvalidates ==
    [][/\ (call'.op = "set_orientation" \/ (call'.op = "init" /\ ~driver_initialized))
            => ~window_set'
       /\ (~FlushStep /\ ~window_set) => ~window_set'
       /\ (FlushStep /\ ~window_set) => AddressesFullPanel(call'.bus)]_vars

\* the panel was addressed in full, the orientation then changed, and the
\* cache is invalid
C21_Witness ==
    /\ call.op = "set_orientation"
    /\ panel_window = FullPanel
    /\ ~window_set

\* C22: with the transfer buffer absent, send_data_dma of any payload
\* makes no bus transfer, puts no byte on the wire and writes no memory:
\* the heap holds no cell afterwards, as before the call, and nothing was
\* freed wrongly.
C22_AbsentBufferNoOp ==
    (call.op = "send_data_dma" /\ dma_buffer = NULL) =>
        /\ call.bus = <<>>
        /\ wire = <<>>
        /\ \A c \in Cells : heap[c] = FreeCell
        /\ ~bad_free

\* a payload of several chunks was sent with no transfer buffer
C22_Witness ==
    /\ call.op = "send_data_dma"
    /\ dma_buffer = NULL
    /\ Len(payload) = 7
    /\ dma_buffer_size = 3

\* the file whose buffer the allocator refused when the loading loop
\* stopped for that reason; 0 when the loop did not stop for that reason
RefusedAt(out, n) ==
    LET S == {i \in 1..n : out[i] = "nomem" /\ \A j \in 1..(i - 1) : out[j] = "ok"}
    IN  IF S = {} THEN 0 ELSE Min(S)

\* steps in which the allocator refused a request of the call
DoubleAllocFailed ==
    /\ call'.op = "init_double_buffers"
    /\ call'.env # <<>>
    /\ NULL \in {call'.env[1], call'.env[2]}
StripeAllocFailed == call'.op = "init_stripe_mode" /\ call'.env = <<NULL>>
PreloadRan == call'.op = "preload_frames" /\ pre_in'.dir_ok /\ pre_in'.max > 0
ArrayAllocFailed == PreloadRan /\ ~pre_in'.arr_ok
FrameAllocFailed ==
    PreloadRan /\ pre_in'.arr_ok /\ RefusedAt(pre_in'.out, pre_in'.max) > 0

\* what the driver holds
DriverState ==
    <<heap, fb_front, fb_back, stripe_buffer, current_stripe, preloaded_frames,
      preloaded_count, dma_buffer, window_set, driver_initialized>>

\* the same, the preloader's part left out
StateBesidePreloader ==
    <<[c \in Cells \ (Region("array") \cup Region("frame")) |-> heap[c]],
      fb_front, fb_back, stripe_buffer, current_stripe, dma_buffer, window_set,
      driver_initialized>>

\* every live cell is one of the driver's buffers
AllLiveReachable ==
    {c \in Cells : heap[c].live} =
        ({fb_front, fb_back, stripe_buffer, dma_buffer} \ {NULL}) \cup ReachablePreloaded

\* C23 as stated: a call in which an allocation was refused reports failure
\* (unset handles, zero count) and leaves the state of the driver as it was
\* before the call, a preloaded set included.
C23_AsStated ==
    [][/\ DoubleAllocFailed =>
            fb_front' = NULL /\ fb_back' = NULL /\ DriverState' = DriverState
       /\ StripeAllocFailed => stripe_buffer' = NULL /\ DriverState' = DriverState
       /\ (ArrayAllocFailed \/ FrameAllocFailed) =>
            call'.ret = 0 /\ DriverState' = DriverState]_vars

\* C23: a refused allocation in init_double_buffers or init_stripe_mode
\* leaves the handles unset and the state of the driver as before the call.
\* preload releases the set loaded before in any case; when the index array
\* is refused it returns 0 with nothing loaded, and when the buffer of file
\* k+1 is refused it returns k with files 1..k loaded (the array released
\* when k is 0).  In every case the rest of the driver is as before, every
\* live cell is one of the driver's buffers and nothing was freed twice.
C23_AllocationFailure ==
    [][/\ DoubleAllocFailed =>
            fb_front' = NULL /\ fb_back' = NULL /\ DriverState' = DriverState
       /\ StripeAllocFailed => stripe_buffer' = NULL /\ DriverState' = DriverState
       /\ ArrayAllocFailed =>
            /\ call'.ret = 0
            /\ preloaded_frames' = NULL
            /\ preloaded_count' = 0
            /\ LivePreloaded' = {}
            /\ StateBesidePreloader' = StateBesidePreloader
       /\ FrameAllocFailed =>
            LET k == RefusedAt(pre_in'.out, pre_in'.max) - 1
            IN  /\ call'.ret = k
                /\ preloaded_count' = k
                /\ (k = 0) = (preloaded_frames' = NULL)
                /\ LivePreloaded' = ReachablePreloaded'
                /\ Cardinality(LivePreloaded') = (IF k = 0 THEN 0 ELSE k + 1)
                /\ \A i \in 0..(k - 1) : heap'[SlotAt(i)'].val = ValFrame(i + 1)
                /\ StateBesidePreloader' = StateBesidePreloader
       /\ (DoubleAllocFailed \/ StripeAllocFailed \/ ArrayAllocFailed
           \/ FrameAllocFailed) => AllLiveReachable' /\ ~bad_free']_vars

\* the index array was refused to a preload made over a loaded set of two,
\* with the double buffers and the stripe buffer allocated: the set is gone
C23_Witness ==
    /\ call.op = "preload_frames"
    /\ ~pre_in.arr_ok
    /\ pre_in.prior = 2
    /\ preloaded_frames = NULL
    /\ fb_front # NULL
    /\ stripe_buffer # NULL

\* C24: after st77xx_cleanup every buffer of the driver is freed and unset
\* (the two full-frame surfaces, the stripe buffer, the preloaded frames
\* with their index array, the transfer buffer), no cell of the heap is
\* live, the window cache is invalid and the driver is not initialized.
C24_CleanupReleasesAll ==
    call.op = "cleanup" =>
        /\ fb_front = NULL
        /\ fb_back = NULL
        /\ stripe_buffer = NULL
        /\ preloaded_frames = NULL
        /\ preloaded_count = 0
        /\ dma_buffer = NULL
        /\ \A c \in Cells : ~heap[c].live
        /\ ~window_set
        /\ ~driver_initialized
        /\ ~bad_free

\* the positions a fill made pixel by pixel stores to, on a surface of
\* rows rows
PerPixelFill(rows) ==
    {y * ST77XX_WIDTH + x : x \in 0..(ST77XX_WIDTH - 1), y \in 0..(rows - 1)}

\* every pixel of the surface followed has the color, and the stores went
\* to the positions ws and nowhere else
FilledAs(ws, color) ==
    /\ surf.written = ws
    /\ ws = 0..(Len(surf.pix) - 1)
    /\ \A i \in 1..Len(surf.pix) : surf.pix[i] = color

\* C25: st77xx_fill_screen on a full-frame surface, and st77xx_stripe_fill
\* on the stripe buffer when its pixel count is even (it is in both panel
\* configurations), store to exactly the positions a fill made pixel by
\* pixel stores to: every pixel of the surface has the color afterwards and
\* no position outside the surface was stored to.
C25_FillAsPerPixel ==
    /\ (call.op = "fill_screen" /\ call.env[1] # NULL) =>
            FilledAs(PerPixelFill(ST77XX_HEIGHT), call.env[2])
    /\ (call.op = "stripe_fill" /\ call.env[1] # NULL
        /\ (ST77XX_WIDTH * ST77XX_STRIPE_HEIGHT) % 2 = 0) =>
            FilledAs(PerPixelFill(ST77XX_STRIPE_HEIGHT), call.env[2])

\* a full frame whose word count is not a multiple of 8 was filled
C25_Witness ==
    /\ call.op = "fill_screen"
    /\ call.env[1] = fb_front
    /\ fb_front # NULL
    /\ call.env[2] = 4660
    /\ ((ST77XX_WIDTH * ST77XX_HEIGHT) \div 2) % 8 # 0
    /\ surf.pix[Len(surf.pix)] = 4660

\* bits hi..lo of v, as a number
Bits(v, hi, lo) == ShiftRight(v, lo) % ShiftLeft(1, hi - lo + 1)

\* C26: st77xx_rgb888_to_rgb565(r, g, b) is a 16-bit value whose bits
\* 15..11 are the top 5 bits of r, bits 10..5 the top 6 bits of g and bits
\* 4..0 the top 5 bits of b; (255, 255, 255) gives 0xFFFF and (0, 0, 0)
\* gives 0.
C26_PackedFields ==
    call.op = "rgb888_to_rgb565" =>
        LET r == call.env[1]
            g == call.env[2]
            b == call.env[3]
        IN  /\ call.ret \in 0..65535
            /\ Bits(call.ret, 15, 11) = Bits(r, 7, 3)
            /\ Bits(call.ret, 10, 5) = Bits(g, 7, 2)
            /\ Bits(call.ret, 4, 0) = Bits(b, 7, 3)
            /\ call.ret = 2048 * (r \div 8) + 32 * (g \div 4) + (b \div 8)
            /\ (r = 255 /\ g = 255 /\ b = 255) => call.ret = 65535
            /\ (r = 0 /\ g = 0 /\ b = 0) => call.ret = 0

\* white was converted
C26_Witness ==
    /\ call.op = "rgb888_to_rgb565"
    /\ call.env = <<255, 255, 255>>
    /\ call.ret = 65535

\* C27: the stripe index stays within 0..ST77XX_STRIPE_COUNT.  It changes
\* only by going back to 0 or by one step up in a flush_next; it comes to
\* ST77XX_STRIPE_COUNT only by the flush_next that sends the last stripe; and
\* with the buffer allocated flush_next returns the sentinel exactly when
\* the index stands at ST77XX_STRIPE_COUNT afterwards, that is when the frame
\* is done.
C27_StripeIndexRange ==
    /\ current_stripe \in 0..ST77XX_STRIPE_COUNT
    /\ [][/\ current_stripe' \in 0..ST77XX_STRIPE_COUNT
          /\ current_stripe' # current_stripe =>
                \/ current_stripe' = 0
                \/ /\ call'.op = "stripe_flush_next"
                   /\ current_stripe' = current_stripe + 1
          /\ (current_stripe' = ST77XX_STRIPE_COUNT
              /\ current_stripe # ST77XX_STRIPE_COUNT) =>
                /\ call'.op = "stripe_flush_next"
                /\ current_stripe = ST77XX_STRIPE_COUNT - 1
                /\ WindowOf(call'.bus)[4] =
                        ST77XX_Y_OFFSET + ST77XX_STRIPE_COUNT * ST77XX_STRIPE_HEIGHT - 1
          /\ (call'.op = "stripe_flush_next" /\ stripe_buffer # NULL) =>
                ((call'.ret = -1) <=> (current_stripe' = ST77XX_STRIPE_COUNT))]_vars

\* the last stripe of a frame was flushed
C27_Witness ==
    /\ call.op = "stripe_flush_next"
    /\ call.bus # <<>>
    /\ call.ret = -1
    /\ stripe_buffer # NULL
    /\ current_stripe = ST77XX_STRIPE_COUNT

\* every command of the log comes before its first data transfer
CommandsBeforeData(bus) ==
    \A j, k \in 1..Len(bus) : (bus[j][1] = "dma" /\ bus[k][1] = "cmd") => k < j

\* a step of st77xx_flush on a non-null surface: the commands the cache
\* calls for, then the data the parameter asks, and the cache valid after
FlushCall(data_ok(_)) ==
    (call'.op = "flush" /\ call'.bus # <<>>)
    => /\ IF window_set
          THEN CmdsOf(call'.bus) = <<CMD_RAMWR>>
          ELSE /\ CmdsOf(call'.bus) = <<CMD_CASET, CMD_RASET, CMD_RAMWR>>
               /\ WindowOf(call'.bus) = FullPanel
       /\ CommandsBeforeData(call'.bus)
       /\ data_ok(call'.bus)
       /\ window_set'

\* C28 as stated: flush of a non-null surface sends CASET, RASET for the
\* full panel and RAMWR when the cache is not valid, RAMWR alone when it is,
\* then streams exactly one full frame, and leaves the cache valid.
C28_AsStated ==
    [][FlushCall(LAMBDA bus :
            \E src \in Cells : StreamsSurface(bus, src, ST77XX_FB_SIZE))]_vars

\* C28 as amended: the commands and the cache as stated; the full frame is
\* streamed when the transfer buffer is allocated, and no data at all when
\* it is not.
C28_FlushCommands ==
    [][FlushCall(LAMBDA bus :
            IF dma_buffer # NULL
            THEN \E src \in Cells : StreamsSurface(bus, src, ST77XX_FB_SIZE)
            ELSE DmaEvents(bus) = <<>>)]_vars

\* a flush that found the cache valid: RAMWR alone, then the whole frame
C28_Witness ==
    /\ call.op = "flush"
    /\ CmdsOf(call.bus) = <<CMD_RAMWR>>
    /\ DmaTotal(call.bus) = ST77XX_FB_SIZE
    /\ window_set

\* C29: a step of flush_next that advances the stripe index and returns a
\* value for stripe i has put the ST77XX_STRIPE_SIZE bytes of the stripe
\* buffer on the bus, with or without the transfer buffer.
C29_AdvanceOnlyOnTransfer ==
    [][(call'.op = "stripe_flush_next" /\ current_stripe' = current_stripe + 1)
        => StreamsSurface(call'.bus, stripe_buffer, ST77XX_STRIPE_SIZE)]_vars

\* the calls of the stripe renderer that send or store
StripeWork ==
    {"stripe_flush_next", "stripe_fill", "stripe_fill_rect", "stripe_draw_image"}

\* C30: the stripe renderer is idle (stripe_buffer unset) at the start,
\* after a refused allocation in init_stripe_mode and after
\* cleanup_stripe_mode.  While it is idle get_buffer returns NULL,
\* flush_next returns -1, and flush_next, fill, fill_rect and draw_image put
\* nothing on the bus and leave the heap, the surface and the stripe index
\* as they were, a begin_frame before them or not.  An init_stripe_mode
\* whose allocation is granted then sets the buffer and the index 0.
C30_IdleRenderer ==
    /\ stripe_buffer = NULL
    /\ [][/\ call'.op = "cleanup_stripe_mode" =>
                stripe_buffer' = NULL /\ (stripe_buffer # NULL => ~heap'[stripe_buffer].live)
          /\ (call'.op = "init_stripe_mode" /\ stripe_buffer = NULL
              /\ call'.env = <<NULL>>) =>
                stripe_buffer' = NULL /\ heap' = heap
          /\ (stripe_buffer = NULL /\ call'.op = "stripe_get_buffer") =>
                call'.ret = NULL
          /\ (stripe_buffer = NULL /\ call'.op = "stripe_flush_next") =>
                call'.ret = -1
          /\ (stripe_buffer = NULL /\ call'.op = "stripe_draw_image") =>
                call'.ret = 0
          /\ (stripe_buffer = NULL /\ call'.op \in StripeWork) =>
                /\ call'.bus = <<>>
                /\ heap' = heap
                /\ surf' = surf
                /\ stripe_buffer' = NULL
                /\ current_stripe' = current_stripe
                /\ panel_window' = panel_window
          /\ (stripe_buffer = NULL /\ call'.op = "init_stripe_mode"
              /\ call'.env # <<NULL>>) =>
                /\ stripe_buffer' # NULL
                /\ heap'[stripe_buffer'].live
                /\ current_stripe' = 0]_vars

\* the driver is set up with its transfer buffer, the renderer is idle, and
\* flush_next has answered with the sentinel and sent nothing
C30_Witness ==
    /\ call.op = "stripe_flush_next"
    /\ stripe_buffer = NULL
    /\ driver_initialized
    /\ dma_buffer # NULL
    /\ call.ret = -1
    /\ call.bus = <<>>

\* the cells a set loaded at frames with count buffers is made of
SetCells(h, frames, count) ==
    IF frames = NULL THEN {}
    ELSE {frames} \cup {h[frames].slots[i + 1] : i \in 0..(count - 1)}

\* C31: a step of st77xx_free_preloaded_frames taken with nothing loaded
\* changes neither the heap nor the handles and frees nothing; taken with a
\* set loaded it frees the index array and each of the count frame buffers
\* (all live before, all different cells), leaves every other cell as it
\* was, and no cell is freed twice; in both cases the array is unset and
\* the count 0 afterwards, so that the next release finds nothing loaded.
C31_ReleaseIdempotent ==
    [][call'.op = "free_preloaded_frames" =>
        /\ preloaded_frames' = NULL
        /\ preloaded_count' = 0
        /\ bad_free' = bad_free
        /\ IF preloaded_frames = NULL
           THEN heap' = heap /\ preloaded_count = 0
           ELSE LET S == SetCells(heap, preloaded_frames, preloaded_count)
                IN  /\ Cardinality(S) = preloaded_count + 1
                    /\ \A c \in S : heap[c].live /\ heap'[c] = FreeCell
                    /\ \A c \in Cells \ S : heap'[c] = heap[c]]_vars

\* a loaded set of two has been released: nothing of the preloader is left
C31_Witness ==
    /\ call.op = "free_preloaded_frames"
    /\ pre_in.out = <<"ok", "ok">>
    /\ pre_in.dir_ok /\ pre_in.arr_ok
    /\ preloaded_frames = NULL
    /\ preloaded_count = 0
    /\ LivePreloaded = {}
    /\ ~bad_free

\* steps of a call that was handed a null surface, text or font
NullFlush == call'.op \in {"flush", "flush_immediate"} /\ call'.env = <<NULL>>
SwapUnallocated ==
    call'.op = "swap_and_display" /\ (fb_front = NULL \/ fb_back = NULL)
NullDraw ==
    \/ call'.op \in {"draw_pixel", "fill_rect", "fill_screen"} /\ call'.env[1] = NULL
    \/ /\ call'.op = "draw_text"
       /\ call'.env[1] = NULL \/ call'.env[3] = 0 \/ txt'.font = NULL

\* C32: flush and flush_immediate of a null surface, swap_and_display with
\* a buffer unallocated, draw_text with a null surface, text or font, and
\* draw_pixel, fill_rect and fill_screen with a null surface, put nothing on
\* the bus, leave the panel's window, the window cache, the labels of the
\* surfaces, the pixels and the rest of the driver's state as they were, and
\* store to no position.
C32_NullInputsNoOp ==
    [][(NullFlush \/ SwapUnallocated \/ NullDraw) =>
        /\ call'.bus = <<>>
        /\ DriverState' = DriverState
        /\ panel_window' = panel_window
        /\ bad_free' = bad_free
        /\ surf'.written = {}
        /\ surf'.pix = surf.pix]_vars

\* the cache is valid with both surfaces allocated, and a flush of a null
\* surface has left it so
C32_Witness ==
    /\ call.op = "flush"
    /\ call.env = <<NULL>>
    /\ window_set
    /\ fb_front # NULL
    /\ dma_buffer # NULL
    /\ panel_window = FullPanel

\* C33: in a draw_text call that decodes, no byte is read beyond the NUL
\* that ends the text (at offset Len(bytes)) and the decoding position
\* never goes past it, whatever the text, one that ends inside a multi-byte
\* sequence included.
C33_NoReadPastTerminator ==
    TextDrawn =>
        /\ TopRead(txt.turns) <= Len(txt.bytes)
        /\ txt.p <= Len(txt.bytes)
        /\ \A k \in 1..Len(txt.turns) :
            txt.turns[k][3] <= Len(txt.bytes) /\ txt.turns[k][10] <= Len(txt.bytes)

\* C34: in a draw_text call that decodes, every turn of the loop moves the
\* decoding position forward by one to four bytes, and the loop takes at
\* most one turn per byte of the text: it has ended when the NUL of the
\* text is reached.
C34_LoopTerminates ==
    TextDrawn =>
        /\ \A k \in 1..Len(txt.turns) :
            /\ txt.turns[k][3] - txt.turns[k][1] >= 1
            /\ txt.turns[k][3] - txt.turns[k][1] <= 4
        /\ Len(txt.turns) <= Len(txt.bytes)
        /\ \A k \in 1..Len(txt.turns) : txt.turns[k][1] < Len(txt.bytes)

\* the state of the driver beside the content of the stripe buffer
StateBesideStripeContent ==
    <<[c \in Cells \ {stripe_buffer} |-> heap[c]], fb_front, fb_back, stripe_buffer,
      current_stripe, preloaded_frames, preloaded_count, dma_buffer, window_set,
      driver_initialized, bad_free>>

\* C35: a step of st77xx_stripe_draw_image leaves the stripe index, the
\* stripe buffer's allocation and everything else of the driver as they
\* were, the content of the stripe buffer apart (and the window of the
\* panel, which its commands address); and the flush_next that comes next
\* in a frame that stood at stripe i sends stripe i: it addresses the band
\* of stripe i and moves the index to i + 1.
C35_DrawImageKeepsFrameState ==
    [][/\ call'.op = "stripe_draw_image" =>
            /\ current_stripe' = current_stripe
            /\ StateBesideStripeContent' = StateBesideStripeContent
            /\ (stripe_buffer # NULL => heap'[stripe_buffer].live)
       /\ (call.op = "stripe_draw_image" /\ call'.op = "stripe_flush_next"
           /\ stripe_buffer # NULL /\ current_stripe < ST77XX_STRIPE_COUNT) =>
            /\ WindowOf(call'.bus) = StripeBand(current_stripe)
            /\ current_stripe' = current_stripe + 1]_vars

\* a file was streamed to the panel in the middle of a frame: two stripes
\* were flushed before it, and the index still stands at 2
C35_Witness ==
    /\ call.op = "stripe_draw_image"
    /\ call.ret = 1
    /\ DmaEvents(call.bus) # <<>>
    /\ frame_calls = 2
    /\ current_stripe = 2
    /\ panel_window = FullPanel

\* C36: the monitor task writes none of the driver's variables and puts
\* nothing on the bus: with its steps interleaved in any way, what the
\* driver, the bus and the panel go through is a run of the driver's calls
\* alone (every step either is one of these calls or leaves the driver, the
\* bus and the panel as they were).
C36_MonitorDoesNotInterfere == Init /\ [][NextControl]_driverVars

\* the monitor has read the heap statistics in the middle of a frame, two
\* stripes flushed
C36_Witness ==
    /\ mem_mon.pc = "log"
    /\ mem_mon.heap_free = esp_get_free_heap_size
    /\ stripe_buffer # NULL
    /\ dma_buffer # NULL
    /\ call.op = "stripe_flush_next"
    /\ current_stripe = 2

====
